---- MODULE Spec2Model ----
(***************************************************************************)
(* A model of app_enhanced.py: the expiring file registry (FileCleaner),   *)
(* output persistence (save_outputs / add_tags), the metadata decoders     *)
(* (info_to_params, info_to_params_a), the continuation split of           *)
(* _do_predictions, the segment timing calculator (calc_time / s2t) and    *)
(* the request handler predict_full.                                       *)
(*                                                                         *)
(* Each component has its own specification over the module's variables;   *)
(* the variables of the other components keep their initial value.         *)
(***************************************************************************)
EXTENDS Integers, Sequences, FiniteSets, TLC

VARIABLES
    \* ---- FileCleaner (file_cleaner) and the files it tracks ----
    files,        \* FileCleaner.files: sequence of [time_added, path]
    disk,         \* the paths that currently exist on the filesystem
    now,          \* the value time.time() returns
    sweepNow,     \* the value of `now` read by the last _cleanup (-1: none yet)
    registered,   \* history: path -> the time_added it was registered with
    unlinked,     \* history: the [path, at] unlinks performed by _cleanup
    nextPath,     \* the next fresh temporary path
    \* ---- save_outputs and the dated output tree ----
    cwd,          \* os.getcwd(), a sequence of path components
    today,        \* datetime.now().strftime("%Y%m%d"), as a day number
    outDirs,      \* the directories that exist below cwd (and elsewhere)
    outTree,      \* the files that exist, as path records
    saveLog,      \* history: one record per save_outputs call
    \* ---- metadata: predict_full + add_tags, info_to_params(_a) ----
    metaReq,      \* the request whose outputs were tagged last
    metaSeed,     \* the seed that request used
    metaFile,     \* the file handed to the decoders: [kind, data]
    metaBase,     \* the dict add_tags wrote for metaReq
    metaOut,      \* what the last decoder call returned: [who, out]
    \* ---- _do_predictions: preprocessing of the continuation sample ----
    splitIn,      \* the arguments of the last call
    splitOut,     \* what its preprocessing produced
    \* ---- calc_time ----
    calcIn,       \* the arguments of the last call
    calcOut,      \* the ten strings it returned
    \* ---- predict_full and the process-wide state it works on ----
    INTERRUPTING, \* the interrupt flag
    USE_DIFFUSION,\* whether the MultiBand diffusion decoder is in use
    MBD,          \* whether the diffusion decoder is loaded (MBD is not None)
    MODEL,        \* the name of the active model, <<>> for None
    UNLOAD_MODEL, \* the --unload_model launch option
    predReq,      \* the request being answered
    predLog,      \* what predict_full did for it
    \* ---- load_model and the model cache ----
    MODELS,       \* the cache: [is_none, keys]; keys are the cached identifiers
    MOVE_TO_CPU,  \* the --unload_to_cpu launch option
    device,       \* identifier -> "cuda" | "cpu", "-" where no instance is alive
    loadReq,      \* the model selection of the request being answered
    \* ---- one request, statement by statement ----
    runPc,        \* where the request being answered is ("idle": none)
    run,          \* its local state
    runLog,       \* how the last request ended
    events,       \* what the request did with its render tasks, in order
    removed,      \* history: the [path, kind] predict_full removed with os.remove
    persisted,    \* the number of requests whose outputs are in the output tree
    \* ---- predict_full: the assembly of the prompts ----
    promptIn,     \* the arguments of the last request that reach the assembly
    promptOut     \* the lists it built: [texts, raw_texts]

cleanerVars == <<files, disk, now, sweepNow, registered, unlinked, nextPath>>
saveVars == <<cwd, today, outDirs, outTree, saveLog>>
metaVars == <<metaReq, metaSeed, metaFile, metaBase, metaOut>>
splitVars == <<splitIn, splitOut>>
calcVars == <<calcIn, calcOut>>
predVars == <<INTERRUPTING, USE_DIFFUSION, MBD, MODEL, UNLOAD_MODEL, predReq, predLog>>
modelVars == <<MODELS, MOVE_TO_CPU, device, loadReq>>
runVars == <<runPc, run, runLog, events, removed, persisted>>
promptVars == <<promptIn, promptOut>>

\* What each component leaves alone.
notCleaner == <<promptVars, saveVars, metaVars, splitVars, calcVars, predVars, modelVars, runVars>>
notSave == <<promptVars, cleanerVars, metaVars, splitVars, calcVars, predVars, modelVars, runVars>>
notMeta == <<promptVars, cleanerVars, saveVars, splitVars, calcVars, predVars, modelVars, runVars>>
notSplit == <<promptVars, cleanerVars, saveVars, metaVars, calcVars, predVars, modelVars, runVars>>
notCalc == <<promptVars, cleanerVars, saveVars, metaVars, splitVars, predVars, modelVars, runVars>>
notPred == <<promptVars, cleanerVars, saveVars, metaVars, splitVars, calcVars, modelVars, runVars>>
\* load_model works on MODEL, which predict_full and _do_predictions share
notModels == <<promptVars, cleanerVars, saveVars, metaVars, splitVars, calcVars,
               INTERRUPTING, USE_DIFFUSION, MBD, UNLOAD_MODEL, predReq, predLog,
               runVars>>
\* a request works on the registry, the interrupt flag, the decoder and the model
notRun == <<promptVars, saveVars, metaVars, splitVars, calcVars,
            UNLOAD_MODEL, predReq, predLog, MODELS, MOVE_TO_CPU, loadReq>>
notPrompt == <<cleanerVars, saveVars, metaVars, splitVars, calcVars, predVars,
               modelVars, runVars>>

vars == <<files, disk, now, sweepNow, registered, unlinked, nextPath,
          cwd, today, outDirs, outTree, saveLog,
          metaReq, metaSeed, metaFile, metaBase, metaOut,
          splitIn, splitOut, calcIn, calcOut,
          INTERRUPTING, USE_DIFFUSION, MBD, MODEL, UNLOAD_MODEL, predReq, predLog,
          MODELS, MOVE_TO_CPU, device, loadReq,
          runPc, run, runLog, events, removed, persisted,
          promptIn, promptOut>>

-----------------------------------------------------------------------------
(***************************************************************************)
(* FileCleaner                                                             *)
(***************************************************************************)

\* FileCleaner.__init__: file_lifetime defaults to 3600 seconds.
file_lifetime == 3600

\* Bounds of the registry model.
MaxFiles == 4
MaxTime == 9100

\* The amounts by which the clock advances between two reads: half a
\* lifetime and one second more, so that ages below, equal to and above
\* file_lifetime all occur.
ClockSteps == {file_lifetime \div 2, file_lifetime \div 2 + 1}

\* _cleanup's test `now - time_added > self.file_lifetime`.
ExpiredAtLifetime(t, time_added) == t - time_added >= file_lifetime
Expired(t, time_added) == t - time_added > file_lifetime

\* self.files.pop(0)
PopLast(s) == SubSeq(s, 1, Len(s) - 1)
Pop0(s) == SubSeq(s, 2, Len(s))

\* _cleanup's loop over the copy list(self.files).  st carries the live list,
\* the filesystem and the unlink history.  Each expired entry of the copy is
\* unlinked if it exists and the head of the live list is popped; the loop
\* stops at the first entry that is not expired.  locked holds the paths
\* whose unlink the operating system refuses: path.unlink() raises there and
\* nothing catches it, so the loop is left with st.raised set.
RECURSIVE CleanupLoop(_, _, _, _, _)
CleanupLoop(copy, i, t, st, locked) ==
    IF i > Len(copy) THEN st
    ELSE IF Expired(t, copy[i].time_added)
         THEN IF copy[i].path \in st.disk /\ copy[i].path \in locked
              THEN [st EXCEPT !.raised = TRUE]
              ELSE CleanupLoop(copy, i + 1, t,
                     [live |-> Pop0(st.live),
                      disk |-> st.disk \ {copy[i].path},
                      unl  |-> IF copy[i].path \in st.disk
                               THEN st.unl \cup {[path |-> copy[i].path, at |-> t]}
                               ELSE st.unl,
                      raised |-> FALSE],
                     locked)
         ELSE st

\* FileCleaner._cleanup at clock value t, every unlink succeeding.
Cleanup(t) ==
    CleanupLoop(files, 1, t,
                [live |-> files, disk |-> disk, unl |-> unlinked, raised |-> FALSE], {})

\* FileCleaner.add(path) for a freshly created temporary file: _cleanup reads
\* the clock, then the entry is appended with a second clock read, d later.
Add(d) ==
    /\ nextPath <= MaxFiles
    /\ now + d <= MaxTime
    /\ LET st == Cleanup(now)
           p  == nextPath
       IN /\ files' = Append(st.live, [time_added |-> now + d, path |-> p])
          /\ disk' = st.disk \cup {p}
          /\ unlinked' = st.unl
          /\ registered' = [registered EXCEPT ![p] = now + d]
    /\ sweepNow' = now
    /\ now' = now + d
    /\ nextPath' = nextPath + 1
    /\ UNCHANGED notCleaner

\* time passes
Tick(d) ==
    /\ now + d <= MaxTime
    /\ now' = now + d
    /\ UNCHANGED <<files, disk, sweepNow, registered, unlinked, nextPath>>
    /\ UNCHANGED notCleaner

\* os.remove(out) in predict_full: a tracked temporary file is removed by
\* the pipeline itself, not by the registry.
Remove(p) ==
    /\ p \in disk
    /\ disk' = disk \ {p}
    /\ UNCHANGED <<files, now, sweepNow, registered, unlinked, nextPath>>
    /\ UNCHANGED notCleaner

\* The state of the registry after `file_cleaner = FileCleaner()`.
CleanerIdle ==
    /\ files = <<>>
    /\ disk = {}
    /\ now = 0
    /\ sweepNow = -1
    /\ registered = [p \in 1..(MaxFiles + 1) |-> -1]
    /\ unlinked = {}
    /\ nextPath = 1

\* The output tree before the first save_outputs call.
SaveIdle ==
    /\ cwd = <<"srv", "app">>
    /\ today = 1
    /\ outDirs = {}
    /\ outTree = {}
    /\ saveLog = <<>>

\* No request tagged and no file decoded yet.
NoFile == [kind |-> "none", data |-> <<>>]
NoOut == [who |-> "none"]
MetaIdle ==
    /\ metaReq = [gen_type |-> "none"]
    /\ metaSeed = -1
    /\ metaFile = NoFile
    /\ metaBase = <<>>
    /\ metaOut = NoOut

\* No call of _do_predictions or calc_time yet.
NoCall == [called |-> FALSE]
SplitIdle == splitIn = NoCall /\ splitOut = NoCall
CalcIdle == calcIn = NoCall /\ calcOut = NoCall

\* The module-level assignments and the launch block: no model loaded, no
\* diffusion decoder, flags off, no request yet.
NoModel == <<>>
PredIdle ==
    /\ INTERRUPTING = FALSE
    /\ USE_DIFFUSION = FALSE
    /\ MBD = FALSE
    /\ MODEL = NoModel
    /\ UNLOAD_MODEL = FALSE
    /\ predReq = NoCall
    /\ predLog = NoCall

\* The model identifiers predict_full builds from the two model dropdowns.
Custom == <<"GrandaddyShmax/musicgen-", "custom">>
Versions ==
    {<<"GrandaddyShmax/musicgen-", "melody">>, <<"GrandaddyShmax/musicgen-", "large">>,
     Custom, <<"GrandaddyShmax/audiogen-", "medium">>}

\* MODELS = None, no instance alive, MOVE_TO_CPU off.
NoDevice == [v \in Versions |-> "-"]
ModelsIdle ==
    /\ MODELS = [is_none |-> TRUE, keys |-> {}]
    /\ MOVE_TO_CPU = FALSE
    /\ device = NoDevice
    /\ loadReq = NoCall

\* No request is being answered and none was.
NoRun ==
    [image |-> 0, left |-> 0, i |-> 0, takes |-> 0,
     wavs |-> <<>>, backups |-> <<>>, tasks |-> <<>>, videos |-> <<>>,
     stale |-> FALSE, pressedGen |-> FALSE, pressedLate |-> FALSE,
     hotCallbacks |-> 0, emptied |-> FALSE, saved |-> FALSE]
RunIdle ==
    /\ runPc = "idle"
    /\ run = NoRun
    /\ runLog = NoCall
    /\ events = <<>>
    /\ removed = {}
    /\ persisted = 0

\* No prompts were assembled yet.
PromptIdle ==
    /\ promptIn = NoCall
    /\ promptOut = NoCall

\* The state once the module is loaded and the interface is built.
Init ==
    /\ CleanerIdle /\ SaveIdle /\ MetaIdle /\ SplitIdle /\ CalcIdle /\ PredIdle
    /\ ModelsIdle /\ RunIdle /\ PromptIdle

CleanerNext ==
    \/ \E d \in {0} \cup ClockSteps : Add(d)
    \/ \E d \in ClockSteps : Tick(d)
    \/ \E p \in 1..MaxFiles : Remove(p)

SpecCleaner == Init /\ [][CleanerNext]_vars

\* The paths registered so far.
Registered == {p \in 1..MaxFiles : registered[p] >= 0}

\* C1: a file registered at time T is never unlinked by the registry's sweep
\* at a time t with t - T <= file_lifetime (distinct paths, non-decreasing
\* clock).
C1_NoEarlyUnlink ==
    \A u \in unlinked : ~(u.at - registered[u.path] <= file_lifetime)

\* C1 witness: a sweep unlinked an expired file while a file whose age was
\* exactly file_lifetime at that sweep is still on disk.
C1_Witness ==
    \E u \in unlinked : \E p \in Registered :
        /\ u.at - registered[p] = file_lifetime
        /\ p \in disk

-----------------------------------------------------------------------------
(***************************************************************************)
(* save_outputs / add_tags: the dated output tree                          *)
(*                                                                         *)
(* A path is a record of its parts: the components of the working          *)
(* directory, "output", the date, the generator kind, the folder, and the  *)
(* file name <seed>[(n)].<ext> (n = 0: no suffix).  str.replace acts on    *)
(* the whole path string; the date and the seed are digits and the         *)
(* generator kind is "music" or "audio", so only the working directory,    *)
(* the folder and the extension can contain the replaced text.             *)
(***************************************************************************)

\* Bounds of the persistence model.
MaxSaves == 4
MaxSeed == 2
MaxDay == 2

GenTypes == {"music", "audio"}

\* The working directories the service is started from.
CwdChoices == {<<"srv", "app">>, <<"srv", "wav", "app">>, <<"home", "mp4", "app">>}

\* os.path.join(os.getcwd(), 'output', current_date, gen_type, folder) and
\* the file name in it.
OutDir(c, date, gen, folder) == [cwd |-> c, date |-> date, gen |-> gen, dir |-> folder]
OutFile(d, seed, n, ext) ==
    [cwd |-> d.cwd, date |-> d.date, gen |-> d.gen, dir |-> d.dir,
     seed |-> seed, n |-> n, ext |-> ext]
DirOf(f) == [cwd |-> f.cwd, date |-> f.date, gen |-> f.gen, dir |-> f.dir]

\* target.replace(old, new): every occurrence in the path is replaced.
Replace(f, old, new) ==
    [f EXCEPT !.cwd = [i \in DOMAIN f.cwd |-> IF f.cwd[i] = old THEN new ELSE f.cwd[i]],
              !.dir = IF @ = old THEN new ELSE @,
              !.ext = IF @ = old THEN new ELSE @]

\* The loop `while os.path.exists(target)`: the first name among <seed>.wav,
\* <seed>(1).wav, <seed>(2).wav, ... that does not exist.  `counter` is the
\* suffix the next iteration would try.
RECURSIVE FreeTarget(_, _, _, _, _)
FreeTarget(tree, d, seed, target, counter) ==
    IF target \in tree
    THEN FreeTarget(tree, d, seed, OutFile(d, seed, counter, "wav"), counter + 1)
    ELSE target

WavTarget(tree, d, seed) == FreeTarget(tree, d, seed, OutFile(d, seed, 0, "wav"), 1)

\* save_outputs(mp4, wav_tmp, tags, gen_type) with tags[7] = str(seed).
\* shutil.copyfile and open(target, 'w') raise when the target's directory
\* does not exist; the call then ends there, keeping what it wrote.
SaveOutputs(seed, gen) ==
    /\ Len(saveLog) < MaxSaves
    /\ LET made == {OutDir(cwd, today, gen, f) : f \in {"wav", "mp4", "json"}}
           dirs == outDirs \cup made
           wav  == WavTarget(outTree, OutDir(cwd, today, gen, "wav"), seed)
           mp4  == Replace(wav, "wav", "mp4")
           json == Replace(mp4, "mp4", "json")
           mp4ok  == DirOf(mp4) \in dirs
           jsonok == mp4ok /\ DirOf(json) \in dirs
           wrote == {wav} \cup (IF mp4ok THEN {mp4} ELSE {})
                          \cup (IF jsonok THEN {json} ELSE {})
       IN /\ outDirs' = dirs
          /\ outTree' = outTree \cup wrote
          /\ saveLog' = Append(saveLog,
                [seed |-> seed, gen |-> gen, date |-> today,
                 wrote |-> wrote, clobbered |-> wrote \cap outTree,
                 returned |-> jsonok])
    /\ UNCHANGED <<cwd, today>>
    /\ UNCHANGED notSave

\* midnight passes: datetime.now() moves to the next day
NextDay ==
    /\ today < MaxDay
    /\ today' = today + 1
    /\ UNCHANGED <<cwd, outDirs, outTree, saveLog>>
    /\ UNCHANGED notSave

SaveInit ==
    /\ CleanerIdle
    /\ MetaIdle
    /\ SplitIdle
    /\ CalcIdle
    /\ PredIdle
    /\ ModelsIdle
    /\ RunIdle /\ PromptIdle
    /\ cwd \in CwdChoices
    /\ today = 1
    /\ outDirs = {}
    /\ outTree = {}
    /\ saveLog = <<>>

SaveNext ==
    \/ \E seed \in 1..MaxSeed, gen \in GenTypes : SaveOutputs(seed, gen)
    \/ NextDay

SpecSave == SaveInit /\ [][SaveNext]_vars

\* The number of calls before call i with the same seed, generator and date.
EarlierSame(i) ==
    Cardinality({j \in 1..(i - 1) :
        /\ saveLog[j].seed = saveLog[i].seed
        /\ saveLog[j].gen = saveLog[i].gen
        /\ saveLog[j].date = saveLog[i].date})

\* The file <seed>[(n)].<ext> in folder <ext> of the output tree of call i.
Expected(i, n, ext) ==
    OutFile(OutDir(cwd, saveLog[i].date, saveLog[i].gen, ext), saveLog[i].seed, n, ext)

\* C3: the k-th save_outputs call with the same seed, generator kind and date
\* writes <seed>.<ext> (k = 1) or <seed>(k-1).<ext> (k > 1) in each of the
\* wav, mp4 and json folders, and overwrites no file of an earlier call.
C3_SuffixedNoOverwrite ==
    \A i \in DOMAIN saveLog :
        /\ saveLog[i].wrote = {Expected(i, EarlierSame(i), ext) : ext \in {"wav", "mp4", "json"}}
        /\ saveLog[i].clobbered = {}

\* What the code keeps of it: when no component of the working directory is
\* "wav" or "mp4", every call writes exactly those three files.
SaveNamesHoldInPlainCwd ==
    (\A k \in DOMAIN cwd : cwd[k] \notin {"wav", "mp4"}) =>
        \A i \in DOMAIN saveLog :
            /\ saveLog[i].wrote = {Expected(i, EarlierSame(i), ext) : ext \in {"wav", "mp4", "json"}}
            /\ saveLog[i].clobbered = {}

-----------------------------------------------------------------------------
(***************************************************************************)
(* Python values in the metadata record                                    *)
(*                                                                         *)
(* A Python str is a sequence of lexemes: a digit, a punctuation mark or   *)
(* a word that the program never splits.  Floats are counted in tenths     *)
(* (1.0 is 10); the model's floats have one decimal digit.                 *)
(***************************************************************************)

SQ == "'"
DQ == "\""
BSL == "\\"

DigitChars == <<"0", "1", "2", "3", "4", "5", "6", "7", "8", "9">>
IsDigit(c) == \E i \in 1..10 : DigitChars[i] = c
DigitVal(c) == (CHOOSE i \in 1..10 : DigitChars[i] = c) - 1

Min(S) == CHOOSE x \in S : \A y \in S : x <= y

\* str(n) for an int
RECURSIVE StrNat(_)
StrNat(n) ==
    IF n < 10 THEN <<DigitChars[n + 1]>>
    ELSE StrNat(n \div 10) \o <<DigitChars[(n % 10) + 1]>>
StrInt(n) == IF n < 0 THEN <<"-">> \o StrNat(-n) ELSE StrNat(n)

\* str(x) for a float x of t tenths, t >= 0: "1.0", "0.9", "250.0"
StrFloat(t) == StrNat(t \div 10) \o <<".">> \o <<DigitChars[(t % 10) + 1]>>

AllDigits(s) == Len(s) > 0 /\ \A i \in DOMAIN s : IsDigit(s[i])

RECURSIVE NatOf(_)
NatOf(s) ==
    IF Len(s) = 0 THEN 0
    ELSE NatOf(SubSeq(s, 1, Len(s) - 1)) * 10 + DigitVal(s[Len(s)])

\* int(s) raises ValueError unless s is an optional sign and digits
IsIntStr(s) == AllDigits(s) \/ (Len(s) > 1 /\ s[1] = "-" /\ AllDigits(Tail(s)))
PyInt(s) == IF AllDigits(s) THEN NatOf(s) ELSE 0 - NatOf(Tail(s))

\* float(s), in tenths: an int, or digits "." digit; ValueError otherwise
IsDecimalStr(s) ==
    /\ Len(s) >= 3
    /\ s[Len(s) - 1] = "."
    /\ IsDigit(s[Len(s)])
    /\ AllDigits(SubSeq(s, 1, Len(s) - 2))
IsFloatStr(s) == IsIntStr(s) \/ IsDecimalStr(s)
PyFloat(s) ==
    IF IsIntStr(s) THEN 10 * PyInt(s)
    ELSE 10 * NatOf(SubSeq(s, 1, Len(s) - 2)) + DigitVal(s[Len(s)])

\* repr(t) of a str: double quotes when t holds a single quote and no double
\* quote, else single quotes with every single quote escaped; a backslash is
\* doubled in both.
RECURSIVE EscapeBSL(_)
EscapeBSL(t) ==
    IF Len(t) = 0 THEN <<>>
    ELSE (IF t[1] = BSL THEN <<BSL, BSL>> ELSE <<t[1]>>) \o EscapeBSL(Tail(t))
RECURSIVE EscapeSQ(_)
EscapeSQ(t) ==
    IF Len(t) = 0 THEN <<>>
    ELSE (IF t[1] = SQ THEN <<BSL, SQ>>
          ELSE IF t[1] = BSL THEN <<BSL, BSL>> ELSE <<t[1]>>) \o EscapeSQ(Tail(t))
Repr(t) ==
    IF (\E i \in DOMAIN t : t[i] = SQ) /\ ~(\E i \in DOMAIN t : t[i] = DQ)
    THEN <<DQ>> \o EscapeBSL(t) \o <<DQ>>
    ELSE <<SQ>> \o EscapeSQ(t) \o <<SQ>>

\* str(l) of a list of str: "[" repr ", " repr ... "]"
RECURSIVE JoinRepr(_)
JoinRepr(l) ==
    IF Len(l) = 0 THEN <<>>
    ELSE IF Len(l) = 1 THEN Repr(l[1])
    ELSE Repr(l[1]) \o <<", ">> \o JoinRepr(Tail(l))
StrList(l) == <<"[">> \o JoinRepr(l) \o <<"]">>

\* re.findall(r"'(.*?)'", s): from the left, the text between a single quote
\* and the next one, the scan resuming after the closing quote.
RECURSIVE FindAllQuoted(_)
FindAllQuoted(s) ==
    LET quotes == {i \in DOMAIN s : s[i] = SQ}
    IN IF quotes = {} THEN <<>>
       ELSE LET i == Min(quotes)
                closing == {j \in quotes : j > i}
            IN IF closing = {} THEN <<>>
               ELSE LET j == Min(closing)
                    IN <<SubSeq(s, i + 1, j - 1)>> \o FindAllQuoted(SubSeq(s, j + 1, Len(s)))

\* elem.strip() is empty
IsBlank(e) == \A i \in DOMAIN e : e[i] = " "

-----------------------------------------------------------------------------
(***************************************************************************)
(* predict_full's metadata and add_tags                                    *)
(*                                                                         *)
(* A request is the record of predict_full's arguments that reach the      *)
(* metadata: text_cat and drag_cat are p0..p9 and d0..d9, audio tells      *)
(* whether an input audio was given and sample_len its trimmed length.     *)
(***************************************************************************)

\* range(n) copies of x
RECURSIVE Times(_, _)
Times(x, n) == IF n <= 0 THEN <<>> ELSE <<x>> \o Times(x, n - 1)

\* The loop `while ind < prompt_amount` of predict_full, as far as raw_texts
\* goes: segment ind contributes int(drag_cat[ind]) copies of its text.
RECURSIVE RawTexts(_, _)
RawTexts(req, ind) ==
    IF ind > req.prompt_amount THEN <<>>
    ELSE Times(req.text_cat[ind], req.drag_cat[ind]) \o RawTexts(req, ind + 1)

\* Whether the loop body ran at all.  In unstructured mode the body assigns
\* "none" to global_prompt, bpm, key and scale.
LoopBodyRan(req) == \E ind \in 1..req.prompt_amount : req.drag_cat[ind] >= 1
Blanked(req) == ~req.struc_prompt /\ LoopBodyRan(req)

\* audio_mode, melody, sample from `if audio:`
AudioMode(req) == IF req.audio THEN <<req.mode>> ELSE <<"none">>
SampleOf(req) == req.audio /\ req.mode = "sample"
MelodyOf(req) == req.audio /\ req.mode = "melody"

\* custom_model_shrt
CustomModelShrt(req) ==
    IF req.gen_type = "music" /\ req.model = "custom" THEN <<req.custom_model>>
    ELSE <<"none">>

\* input_length as _do_predictions returns it: 0, or the trimmed sample length
InputLengthStr(req) == IF SampleOf(req) THEN StrFloat(req.sample_len) ELSE <<"0">>

\* The list `tags` of predict_full; seed is the seed used, topk is int(topk).
Tags(req, seed) ==
    << IF Blanked(req) THEN <<"none">> ELSE req.global_prompt,
       IF Blanked(req) THEN <<"none">> ELSE StrInt(req.bpm),
       IF Blanked(req) THEN <<"none">> ELSE <<req.key>>,
       IF Blanked(req) THEN <<"none">> ELSE <<req.scale>>,
       StrList(RawTexts(req, 1)),
       StrInt(req.duration),
       StrInt(req.overlap),
       StrInt(seed),
       AudioMode(req),
       InputLengthStr(req),
       <<req.channel>>,
       <<req.sr_select>>,
       <<req.model>>,
       CustomModelShrt(req),
       <<req.decoder>>,
       StrInt(req.topk \div 10),
       StrFloat(req.topp),
       StrFloat(req.temperature),
       StrFloat(req.cfg_coef),
       <<req.gen_type>> >>

\* version = "2.0.1"
VersionStr == <<"2", ".", "0", ".", "1">>

\* add_tags: the dict `data` built from tags by position; json.dumps and the
\* json.loads of the decoders return the same dict of strings.
MetaKeys ==
    {"global_prompt", "bpm", "key", "scale", "texts", "duration", "overlap",
     "seed", "audio_mode", "input_length", "channel", "sr_select", "model",
     "custom_model", "decoder", "topk", "topp", "temperature", "cfg_coef",
     "generator", "version"}

AddTags(tags) ==
    [global_prompt |-> tags[1], bpm |-> tags[2], key |-> tags[3], scale |-> tags[4],
     texts |-> tags[5], duration |-> tags[6], overlap |-> tags[7], seed |-> tags[8],
     audio_mode |-> tags[9], input_length |-> tags[10], channel |-> tags[11],
     sr_select |-> tags[12], model |-> tags[13], custom_model |-> tags[14],
     decoder |-> tags[15], topk |-> tags[16], topp |-> tags[17],
     temperature |-> tags[18], cfg_coef |-> tags[19], generator |-> tags[20],
     version |-> VersionStr]

-----------------------------------------------------------------------------
(***************************************************************************)
(* info_to_params / info_to_params_a                                       *)
(*                                                                         *)
(* data is the decoded dict: a function from the keys present to strings.  *)
(* The taglib branch and the .json branch of each decoder are the same     *)
(* statements.  Python's None is the string PyNone.                        *)
(***************************************************************************)

PyNone == <<"None">>
NoneStr == <<"none">>
Has(data, k) == k \in DOMAIN data

\* get_available_folders(): the folders of models/
AvailableFolders == {<<"mymodel">>}

\* The loop over re.findall's result that collapses a run of equal entries
\* into one text with a repeat count; i is the position in s, from 1.
RECURSIVE CollapseLoop(_, _, _, _)
CollapseLoop(s, i, text, repeat) ==
    IF i > Len(s) THEN [text |-> text, repeat |-> repeat]
    ELSE IF ~IsBlank(s[i])
         THEN IF i = 1 \/ s[i] # s[i - 1]
              THEN CollapseLoop(s, i + 1, Append(text, s[i]), Append(repeat, 1))
              ELSE CollapseLoop(s, i + 1, text,
                                [repeat EXCEPT ![Len(repeat)] = @ + 1])
         ELSE CollapseLoop(s, i + 1, text, repeat)

\* x.extend([v] * (10 - len(x)))
PadTo10(x, v) == x \o Times(v, 10 - Len(x))

\* text, repeat and unique_prompts from data['texts']
DecTexts(data) ==
    IF ~Has(data, "texts")
    THEN [unique_prompts |-> 1, text |-> Times(<<>>, 10), repeat |-> Times(1, 10)]
    ELSE LET c == CollapseLoop(FindAllQuoted(data.texts), 1, <<>>, <<>>)
             text == PadTo10(c.text, <<>>)
             repeat == PadTo10(c.repeat, 1)
         IN [unique_prompts |-> Len(SelectSeq(text, LAMBDA t : t # <<>>)),
             text |-> SubSeq(text, 1, 10),
             repeat |-> SubSeq(repeat, 1, 10)]

\* The conversions that raise ValueError on a string that is no number.
IntKeys == {"duration", "seed", "overlap"}
FloatKeys == {"topk", "topp", "temperature", "cfg_coef"}
Raises(data) ==
    \/ \E k \in IntKeys : Has(data, k) /\ ~IsIntStr(data[k])
    \/ \E k \in FloatKeys : Has(data, k) /\ ~IsFloatStr(data[k])
RaisesBpm(data) == Has(data, "bpm") /\ data.bpm # NoneStr /\ ~IsIntStr(data.bpm)

\* `int(data[k]) if k in data else dflt`, `float(data[k]) if ...`
IntOr(data, k, dflt) == IF Has(data, k) /\ IsIntStr(data[k]) THEN PyInt(data[k]) ELSE dflt
FloatOr(data, k, dflt) == IF Has(data, k) /\ IsFloatStr(data[k]) THEN PyFloat(data[k]) ELSE dflt
StrOr(data, k, dflt) == IF Has(data, k) THEN data[k] ELSE dflt
\* `(dflt if data[k] == "none" else data[k]) if k in data else dflt`
StrOrUnlessNone(data, k, dflt) ==
    IF Has(data, k) THEN (IF data[k] = NoneStr THEN dflt ELSE data[k]) ELSE dflt

\* overlap = int(data['overlap']) if 'overlap' in data else 12
DecOverlapAsDuration(data) == IntOr(data, "overlap", 10)
DecOverlap(data) == IntOr(data, "overlap", 12)

\* The fields both decoders compute the same way.
DecCommon(data) ==
    LET t == DecTexts(data)
    IN [decoder |-> StrOr(data, "decoder", <<"Default">>),
        global_prompt |-> StrOr(data, "global_prompt", <<>>),
        unique_prompts |-> t.unique_prompts,
        text |-> t.text,
        repeat |-> t.repeat,
        duration |-> IntOr(data, "duration", 10),
        topk |-> FloatOr(data, "topk", 2500),
        topp |-> FloatOr(data, "topp", 0),
        temperature |-> FloatOr(data, "temperature", 10),
        cfg_coef |-> FloatOr(data, "cfg_coef", 50),
        seed |-> IntOr(data, "seed", -1),
        overlap |-> DecOverlap(data),
        channel |-> StrOr(data, "channel", <<"stereo">>),
        sr_select |-> StrOr(data, "sr_select", <<"48000">>)]

\* info_to_params on a decoded dict: the 39 returned values, text0..text9 and
\* repeat0..repeat9 as the sequences text and repeat.
DecodeData(data) ==
    LET c == DecCommon(data)
    IN [raised |-> Raises(data) \/ RaisesBpm(data),
        decoder |-> c.decoder,
        struc_prompt |-> IF Has(data, "bpm") THEN data.bpm # NoneStr ELSE FALSE,
        global_prompt |-> c.global_prompt,
        bpm |-> IF Has(data, "bpm") /\ data.bpm # NoneStr /\ IsIntStr(data.bpm)
                THEN PyInt(data.bpm) ELSE 120,
        key |-> StrOrUnlessNone(data, "key", <<"C">>),
        scale |-> StrOrUnlessNone(data, "scale", <<"Major">>),
        model |-> StrOr(data, "model", <<"large">>),
        custom_model |-> IF Has(data, "custom_model") /\ data.custom_model \in AvailableFolders
                         THEN data.custom_model ELSE PyNone,
        unique_prompts |-> c.unique_prompts, text |-> c.text, repeat |-> c.repeat,
        audio_mode |-> StrOrUnlessNone(data, "audio_mode", <<"sample">>),
        duration |-> c.duration, topk |-> c.topk, topp |-> c.topp,
        temperature |-> c.temperature, cfg_coef |-> c.cfg_coef, seed |-> c.seed,
        overlap |-> c.overlap, channel |-> c.channel, sr_select |-> c.sr_select]

\* info_to_params_a on a decoded dict: the 33 returned values.
DecodeDataA(data) ==
    LET c == DecCommon(data)
    IN [raised |-> Raises(data),
        decoder |-> c.decoder,
        struc_prompt |-> IF Has(data, "global_prompt") THEN data.global_prompt # <<>> ELSE FALSE,
        global_prompt |-> c.global_prompt,
        unique_prompts |-> c.unique_prompts, text |-> c.text, repeat |-> c.repeat,
        duration |-> c.duration, topk |-> c.topk, topp |-> c.topp,
        temperature |-> c.temperature, cfg_coef |-> c.cfg_coef, seed |-> c.seed,
        overlap |-> c.overlap, channel |-> c.channel, sr_select |-> c.sr_select]

\* The file handed to a decoder: kind "none" (audio_path is None),
\* "unsupported" (another extension), "untagged" (a wav or mp4 without a
\* COMMENT tag), "tagged" (a wav or mp4 with one) or "json".
HasData(file) == file.kind \in {"tagged", "json"}

\* The tuples returned when there is no file, no supported extension or no
\* COMMENT tag.
DefaultParams ==
    [raised |-> FALSE, decoder |-> <<"Default">>, struc_prompt |-> FALSE,
     global_prompt |-> <<>>, bpm |-> 120, key |-> <<"C">>, scale |-> <<"Major">>,
     model |-> <<"large">>, custom_model |-> PyNone, unique_prompts |-> 1,
     text |-> Times(<<>>, 10), repeat |-> Times(1, 10), audio_mode |-> <<"sample">>,
     duration |-> 10, topk |-> 2500, topp |-> 0, temperature |-> 10, cfg_coef |-> 50,
     seed |-> -1, overlap |-> 12, channel |-> <<"stereo">>,
     sr_select |-> <<"48000">>]
DefaultParamsA ==
    [raised |-> FALSE, decoder |-> <<"Default">>, struc_prompt |-> FALSE,
     global_prompt |-> <<>>, unique_prompts |-> 1,
     text |-> Times(<<>>, 10), repeat |-> Times(1, 10),
     duration |-> 10, topk |-> 2500, topp |-> 0, temperature |-> 10, cfg_coef |-> 50,
     seed |-> -1, overlap |-> 12, channel |-> <<"stereo">>,
     sr_select |-> <<"48000">>]

\* info_to_params(audio_path) and info_to_params_a(audio_path)
info_to_params(file) == IF HasData(file) THEN DecodeData(file.data) ELSE DefaultParams
info_to_params_a(file) == IF HasData(file) THEN DecodeDataA(file.data) ELSE DefaultParamsA

-----------------------------------------------------------------------------
(***************************************************************************)
(* The metadata round trip: a request is generated and tagged, the tagged  *)
(* file is handed to a decoder.                                            *)
(***************************************************************************)

\* Bound: the seeds random.randint draws for a negative requested seed.
MaxRandomSeed == 1

\* p0..p9 and d0..d9 from the first segments; the other slots keep the
\* interface's initial "" and 1.
Prompts(n, texts, drags) ==
    [prompt_amount |-> n,
     text_cat |-> texts \o Times(<<>>, 10 - Len(texts)),
     drag_cat |-> drags \o Times(1, 10 - Len(drags))]

PromptChoices ==
    {Prompts(1, <<<<"lofi">>>>, <<1>>),
     Prompts(2, <<<<"lofi">>, <<"rain">>>>, <<2, 1>>),
     Prompts(2, <<<<"lofi">>, <<"lofi">>>>, <<1, 1>>),
     Prompts(3, <<<<"lofi">>, <<>>, <<"rain">>>>, <<1, 1, 1>>),
     Prompts(1, <<<<>>>>, <<2>>),
     Prompts(1, <<<<"it", SQ, "s">>>>, <<1>>),
     Prompts(1, <<<<"lofi">>>>, <<0>>)}

\* The settings tab and the sliders: the interface's initial values, and a
\* set of other values.
SettingChoices ==
    {[bpm |-> 120, key |-> "C", scale |-> "Major", model |-> "large",
      custom_model |-> "mymodel", decoder |-> "Default", duration |-> 10,
      topk |-> 2500, topp |-> 0, temperature |-> 10, cfg_coef |-> 30,
      overlap |-> 12, channel |-> "stereo", sr_select |-> "48000", sample_len |-> 50],
     [bpm |-> 90, key |-> "D", scale |-> "Minor", model |-> "custom",
      custom_model |-> "mymodel", decoder |-> "MultiBand_Diffusion", duration |-> 45,
      topk |-> 1005, topp |-> 9, temperature |-> 15, cfg_coef |-> 55,
      overlap |-> 5, channel |-> "mono", sr_select |-> "32000", sample_len |-> 125]}

Request(gen, struc, gp, pr, audio, mode, st, seed) ==
    [gen_type |-> gen, struc_prompt |-> struc, global_prompt |-> gp,
     prompt_amount |-> pr.prompt_amount, text_cat |-> pr.text_cat, drag_cat |-> pr.drag_cat,
     audio |-> audio, mode |-> mode, seed |-> seed,
     bpm |-> st.bpm, key |-> st.key, scale |-> st.scale, model |-> st.model,
     custom_model |-> st.custom_model, decoder |-> st.decoder, duration |-> st.duration,
     topk |-> st.topk, topp |-> st.topp, temperature |-> st.temperature,
     cfg_coef |-> st.cfg_coef, overlap |-> st.overlap, channel |-> st.channel,
     sr_select |-> st.sr_select,
     sample_len |-> st.sample_len]

\* The audio tab's model, decoder and mode radios have one choice each.
AudioTab(req) ==
    [req EXCEPT !.gen_type = "audio", !.model = "medium", !.decoder = "Default",
                !.mode = "sample"]

MusicRequests ==
    {Request("music", struc, gp, pr, audio, mode, st, seed) :
        struc \in BOOLEAN, gp \in {<<>>, <<"epic">>},
        pr \in PromptChoices, audio \in BOOLEAN, mode \in {"melody", "sample"},
        st \in SettingChoices, seed \in {-1, 7}}

Requests == MusicRequests \cup {AudioTab(req) : req \in MusicRequests}

\* `if seed < 0: seed = random.randint(0, 0xffff_ffff_ffff)`
\* A request whose seed is used as it was given.
SeedsKept(req) == {req.seed}

SeedsUsed(req) == IF req.seed < 0 THEN 0..MaxRandomSeed ELSE {req.seed}

\* predict_full with valid sampling parameters, up to save_outputs: the dict
\* is written into the wav, the mp4 and the .json file of the request.
Generate(req, seed, kind) ==
    /\ metaFile = NoFile
    /\ metaReq' = req
    /\ metaSeed' = seed
    /\ metaBase' = AddTags(Tags(req, seed))
    /\ metaFile' = [kind |-> kind, data |-> metaBase']
    /\ metaOut' = NoOut
    /\ UNCHANGED notMeta

\* The "send to MusicGen" and "send to AudioGen" buttons.
SendGen ==
    /\ metaOut' = [who |-> "music", out |-> info_to_params(metaFile)]
    /\ UNCHANGED <<metaReq, metaSeed, metaFile, metaBase>>
    /\ UNCHANGED notMeta

SendGenA ==
    /\ metaOut' = [who |-> "audio", out |-> info_to_params_a(metaFile)]
    /\ UNCHANGED <<metaReq, metaSeed, metaFile, metaBase>>
    /\ UNCHANGED notMeta

MetaNext ==
    \/ \E req \in Requests : \E seed \in SeedsUsed(req) : \E kind \in {"tagged", "json"} :
          Generate(req, seed, kind)
    \/ SendGen
    \/ SendGenA

SpecMeta == Init /\ [][MetaNext]_vars

\* The request fields both decoders return, compared with what was requested.
\* In unstructured mode the global prompt is not recorded (the record holds
\* "none"), so it is compared for structured requests only; topk is recorded
\* as int(topk).
RecoversCommon(req, seed, out) ==
    /\ ~out.raised
    /\ out.struc_prompt = req.struc_prompt
    /\ req.struc_prompt => out.global_prompt = req.global_prompt
    /\ out.decoder = <<req.decoder>>
    /\ out.unique_prompts = req.prompt_amount
    /\ \A i \in 1..req.prompt_amount :
          /\ out.text[i] = req.text_cat[i]
          /\ out.repeat[i] = req.drag_cat[i]
    /\ out.duration = req.duration
    /\ out.topk = 10 * (req.topk \div 10)
    /\ out.topp = req.topp
    /\ out.temperature = req.temperature
    /\ out.cfg_coef = req.cfg_coef
    /\ out.seed = seed
    /\ out.overlap = req.overlap
    /\ out.channel = <<req.channel>>
    /\ out.sr_select = <<req.sr_select>>

\* The fields only info_to_params returns; bpm, key and scale are recorded
\* for structured requests, the audio mode when an input audio was given.
RecoversMusic(req, out) ==
    /\ req.struc_prompt => /\ out.bpm = req.bpm
                           /\ out.key = <<req.key>>
                           /\ out.scale = <<req.scale>>
    /\ out.model = <<req.model>>
    /\ req.audio => out.audio_mode = <<req.mode>>

\* C4: decoding the record predict_full + add_tags wrote for a request, with
\* info_to_params (music) or info_to_params_a (audio), recovers every
\* recorded request field unchanged.
C4_RoundTrip ==
    /\ (metaOut.who = "music" /\ metaReq.gen_type = "music") =>
          RecoversCommon(metaReq, metaSeed, metaOut.out) /\ RecoversMusic(metaReq, metaOut.out)
    /\ (metaOut.who = "audio" /\ metaReq.gen_type = "audio") =>
          RecoversCommon(metaReq, metaSeed, metaOut.out)

-----------------------------------------------------------------------------
(***************************************************************************)
(* Decoding records with missing keys: a tagged file loses keys (it was    *)
(* written by an older release, or edited by hand) before it is handed to  *)
(* a decoder, or the file holds no record at all.                          *)
(***************************************************************************)

\* Bound: the number of keys dropped one by one from a complete record.
MaxMissing == 2

\* The requests whose records are stripped.
BaseRequests ==
    {Request("music", TRUE, <<"epic">>, Prompts(2, <<<<"lofi">>, <<"rain">>>>, <<2, 1>>),
             TRUE, "melody", st, 7) : st \in SettingChoices}
    \cup {Request("music", FALSE, <<>>, Prompts(1, <<<<"lofi">>>>, <<1>>),
                  FALSE, "sample", st, 7) : st \in SettingChoices}
    \cup {AudioTab(Request("music", TRUE, <<"epic">>, Prompts(1, <<<<"rain">>>>, <<3>>),
                           FALSE, "sample", st, -1)) : st \in SettingChoices}

\* data without the keys outside K
Restrict(data, K) == [k \in DOMAIN data \cap K |-> data[k]]

\* One key is deleted from the record of the file.
DropKey(k) ==
    /\ HasData(metaFile)
    /\ k \in DOMAIN metaFile.data
    /\ Cardinality(MetaKeys \ DOMAIN metaFile.data) < MaxMissing
    /\ metaFile' = [metaFile EXCEPT !.data = Restrict(@, DOMAIN @ \ {k})]
    /\ metaOut' = NoOut
    /\ UNCHANGED <<metaReq, metaSeed, metaBase>>
    /\ UNCHANGED notMeta

\* All keys but those of K are deleted from a complete record.
KeepOnly(K) ==
    /\ HasData(metaFile)
    /\ metaFile.data = metaBase
    /\ metaFile' = [metaFile EXCEPT !.data = Restrict(@, K)]
    /\ metaOut' = NoOut
    /\ UNCHANGED <<metaReq, metaSeed, metaBase>>
    /\ UNCHANGED notMeta

\* Another file is handed over: an upload without a COMMENT tag, a file with
\* another extension, or nothing.
HandOver(kind) ==
    /\ HasData(metaFile)
    /\ metaFile' = [kind |-> kind, data |-> <<>>]
    /\ metaOut' = NoOut
    /\ UNCHANGED <<metaReq, metaSeed, metaBase>>
    /\ UNCHANGED notMeta

MissingNext ==
    \/ \E req \in BaseRequests : \E seed \in SeedsUsed(req) : \E kind \in {"tagged", "json"} :
          Generate(req, seed, kind)
    \/ \E k \in MetaKeys : DropKey(k)
    \/ \E K \in {{}} \cup {{k} : k \in MetaKeys} : KeepOnly(K)
    \/ \E kind \in {"none", "unsupported", "untagged"} : HandOver(kind)
    \/ SendGen
    \/ SendGenA

SpecMissing == Init /\ [][MissingNext]_vars

\* The output fields each key of the record determines, for each decoder.
FieldsOf(who, k) ==
    IF k = "texts" THEN {"text", "repeat", "unique_prompts"}
    ELSE IF k \in {"decoder", "duration", "topk", "topp", "temperature", "cfg_coef",
                   "seed", "overlap", "channel", "sr_select"} THEN {k}
    ELSE IF who = "music"
         THEN IF k = "bpm" THEN {"bpm", "struc_prompt"}
              ELSE IF k \in {"global_prompt", "key", "scale", "model", "custom_model",
                             "audio_mode"} THEN {k}
              ELSE {}
         ELSE IF k = "global_prompt" THEN {"global_prompt", "struc_prompt"} ELSE {}

\* The defaults C5 lists (floats in tenths).
C5Defaults ==
    [bpm |-> 120, key |-> <<"C">>, scale |-> <<"Major">>, global_prompt |-> <<>>,
     struc_prompt |-> FALSE, model |-> <<"large">>, custom_model |-> <<"None">>,
     decoder |-> <<"Default">>,
     text |-> <<<<>>, <<>>, <<>>, <<>>, <<>>, <<>>, <<>>, <<>>, <<>>, <<>>>>,
     repeat |-> <<1, 1, 1, 1, 1, 1, 1, 1, 1, 1>>, unique_prompts |-> 1,
     audio_mode |-> <<"sample">>, duration |-> 10, topk |-> 2500, topp |-> 0,
     temperature |-> 10, cfg_coef |-> 50, seed |-> -1, overlap |-> 12,
     channel |-> <<"stereo">>, sr_select |-> <<"48000">>]

\* The output of decoder `who` for a present key k is the value recorded under
\* k: the recorded string, the number the string was written from, the
\* default where the record holds the placeholder "none", None for a custom
\* model that is not installed.
KeepsRecorded(who, k, data, out) ==
    /\ k \in {"decoder", "channel", "sr_select", "global_prompt", "model"} /\ FieldsOf(who, k) # {}
          => out[k] = data[k]
    /\ k \in {"duration", "seed", "overlap"} => StrInt(out[k]) = data[k]
    /\ k = "topk" => out.topk % 10 = 0 /\ StrInt(out.topk \div 10) = data.topk
    /\ k \in {"topp", "temperature", "cfg_coef"} => StrFloat(out[k]) = data[k]
    /\ k \in {"key", "scale", "audio_mode"} /\ who = "music"
          => out[k] = IF data[k] = <<"none">> THEN C5Defaults[k] ELSE data[k]
    /\ k = "bpm" /\ who = "music"
          => IF data.bpm = <<"none">> THEN out.bpm = 120 /\ ~out.struc_prompt
             ELSE StrInt(out.bpm) = data.bpm /\ out.struc_prompt
    /\ k = "custom_model" /\ who = "music"
          => out.custom_model = IF data.custom_model \in AvailableFolders
                                THEN data.custom_model ELSE <<"None">>

\* The record the decoder saw, and its decoding of the complete record.
SeenData == IF HasData(metaFile) THEN metaFile.data ELSE <<>>
FullOut ==
    IF metaOut.who = "music" THEN DecodeData(metaBase) ELSE DecodeDataA(metaBase)

-----------------------------------------------------------------------------
(***************************************************************************)
(* _do_predictions: trimming and splitting the continuation sample         *)
(*                                                                         *)
(* Times are counted in eighths of a second (29.5 s is 236, 0.5 s is 4),   *)
(* which holds every quotient the code forms for the inputs below exactly. *)
(* A tensor is known by its length in samples along the last axis.         *)
(***************************************************************************)

\* Bound: the length of the uploaded sample, in samples.
MaxSamples == 124

\* sample[0]: samples per second.  With 1 the product globalSR *
\* maximum_size is not whole (as for an 11025 Hz upload), with 2 and 4 it is
\* (as for 22050 or 44100 Hz).
SampleRates == {1, 2, 4}

\* trim_start and trim_end as predict_full passes them (clamped to >= 0).
TrimChoices == {0, 1, 2, 3, 8, 2000}

\* maximum_size: 29.5 for music, 9.5 for audio
maximum_size(gen_type) == IF gen_type = "music" THEN 236 ELSE 76

\* int(globalSR * t) for a time t: truncation towards zero
IntSamples(sr, t) == IF t >= 0 THEN (sr * t) \div 8 ELSE 0 - ((sr * (0 - t)) \div 8)

\* The length of x[..., a:b] for a tensor of length len: negative indices
\* count from the end, indices are clipped to the tensor.
SliceLen(len, a, b) ==
    LET norm(x) == IF x < 0 THEN (IF len + x < 0 THEN 0 ELSE len + x)
                   ELSE (IF x > len THEN len ELSE x)
    IN IF norm(b) > norm(a) THEN norm(b) - norm(a) ELSE 0

\* The clamps of trim_start and trim_end against sample_length.
ClampTrims(sample_length, trim_start, trim_end) ==
    LET ts == IF trim_start >= sample_length THEN sample_length - 4 ELSE trim_start
        te == IF trim_end >= sample_length THEN sample_length - 4 ELSE trim_end
    IN IF ts + te >= sample_length
       THEN [trim_start |-> (sample_length - 4) \div 2, trim_end |-> (sample_length - 4) \div 2]
       ELSE [trim_start |-> ts, trim_end |-> te]

\* The part of _do_predictions before the model is used, for a sample of n
\* samples at rate sr.  sampleP = -1 stands for None.
Preprocess(gen_type, sr, n, trim_start, trim_end, duration) ==
    LET full    == (8 * n) \div sr
        tr      == ClampTrims(full, trim_start, trim_end)
        trimmed == SliceLen(n, IntSamples(sr, tr.trim_start),
                            IntSamples(sr, full - tr.trim_end))
        sample_length == full - (tr.trim_start + tr.trim_end)
        longer  == sample_length > maximum_size(gen_type)
        cut_size == IF longer THEN sample_length - maximum_size(gen_type) ELSE 0
        cut     == IntSamples(sr, cut_size)
    IN [called |-> TRUE,
        trimmed |-> trimmed,
        sample_length |-> sample_length,
        cut_size |-> cut_size,
        sampleP |-> IF longer THEN SliceLen(trimmed, 0, cut) ELSE -1,
        sampleM |-> IF longer THEN SliceLen(trimmed, cut, trimmed) ELSE trimmed,
        duration |-> IF sample_length >= duration THEN sample_length + 4 ELSE duration,
        input_length |-> sample_length]

\* What the same lines leave when sample is None.
NoSample(duration) ==
    [called |-> TRUE, trimmed |-> 0, sample_length |-> 0, cut_size |-> 0, sampleP |-> -1,
     sampleM |-> 0, duration |-> duration, input_length |-> 0]

\* The durations requested with a sample: 10 s and 60 s.
SplitDurations == {80, 480}

\* _do_predictions is called with a continuation sample.  Calls share no
\* state, so a behaviour holds one call.
DoPredictionsSample ==
    /\ ~splitIn.called
    /\ \E gen_type \in GenTypes, sr \in SampleRates, n \in 1..MaxSamples,
          trim_start \in TrimChoices, trim_end \in TrimChoices, duration \in SplitDurations :
          /\ splitIn' = [called |-> TRUE, sample |-> TRUE, gen_type |-> gen_type,
                         sr |-> sr, n |-> n, trim_start |-> trim_start,
                         trim_end |-> trim_end, duration |-> duration]
          /\ splitOut' = Preprocess(gen_type, sr, n, trim_start, trim_end, duration)
    /\ UNCHANGED notSplit

\* _do_predictions is called without one.
DoPredictionsNoSample ==
    /\ ~splitIn.called
    /\ \E gen_type \in GenTypes, duration \in SplitDurations :
          /\ splitIn' = [called |-> TRUE, sample |-> FALSE, gen_type |-> gen_type,
                         duration |-> duration]
          /\ splitOut' = NoSample(duration)
    /\ UNCHANGED notSplit

SplitNext == DoPredictionsSample \/ DoPredictionsNoSample

SpecSplit == Init /\ [][SplitNext]_vars

\* C6: when the trimmed sample is longer than maximum_size the split yields a
\* prepend buffer and a remainder, the remainder (sampleM samples at rate sr)
\* lasts no longer than maximum_size, and the two lengths add up to the
\* trimmed length; when it is not longer, sampleP stays None.
C6_SplitBounded ==
    (splitIn.called /\ splitIn.sample) =>
        IF splitOut.sample_length > maximum_size(splitIn.gen_type)
        THEN /\ splitOut.sampleP # -1
             /\ 8 * splitOut.sampleM <= maximum_size(splitIn.gen_type) * splitIn.sr
             /\ splitOut.sampleP + splitOut.sampleM = splitOut.trimmed
        ELSE splitOut.sampleP = -1

\* What holds of the split: the two parts add up to the trimmed tensor, a
\* prepend buffer exists exactly when sample_length exceeds maximum_size, and
\* the remainder exceeds maximum_size by less than two samples (one for each
\* truncation, of the trim and of the cut).
SplitWithinTwoSamples ==
    (splitIn.called /\ splitIn.sample) =>
        IF splitOut.sample_length > maximum_size(splitIn.gen_type)
        THEN /\ splitOut.sampleP # -1
             /\ 8 * (splitOut.sampleM - 2) < maximum_size(splitIn.gen_type) * splitIn.sr
             /\ splitOut.sampleP + splitOut.sampleM = splitOut.trimmed
        ELSE splitOut.sampleP = -1

-----------------------------------------------------------------------------
(***************************************************************************)
(* s2t / calc_time: the segment timing calculator                          *)
(***************************************************************************)

\* Bound: the repeat counts entered in the slots that vary.
MaxRepeat == 3

\* "%02d" % n
Pad2(n) == IF 0 <= n /\ n < 10 THEN <<"0">> \o StrNat(n) ELSE StrInt(n)

\* s2t's test `seconds != 0 and seconds < seconds2`, under which the start
\* is shown one second later.
BumpsAlways(seconds, seconds2) == seconds # 0
Bumps(seconds, seconds2) == seconds # 0 /\ seconds < seconds2

\* s2t(seconds, seconds2): "MM:SS - MM:SS"
s2t(seconds, seconds2) ==
    LET m  == seconds \div 60
        sb == (seconds % 60) + (IF Bumps(seconds, seconds2) THEN 1 ELSE 0)
        m2 == seconds2 \div 60
        s2 == seconds2 % 60
    IN Pad2(m) \o <<":">> \o Pad2(sb) \o <<" - ">> \o Pad2(m2) \o <<":">> \o Pad2(s2)

\* max_limit: the segment capacity
max_limit(gen_type) == IF gen_type = "music" THEN 30 ELSE 10

\* tracks, with slot i of the code at position i + 1
TracksFirstUnrepeated(gen_type, overlap, d_amount) ==
    LET track_add == max_limit(gen_type) - overlap
    IN [i \in 1..10 |-> IF i = 1 THEN max_limit(gen_type) ELSE d_amount[i] * track_add]
Tracks(gen_type, overlap, d_amount) ==
    LET track_add == max_limit(gen_type) - overlap
    IN [i \in 1..10 |-> IF i = 1 THEN max_limit(gen_type) + ((d_amount[1] - 1) * track_add)
                        ELSE d_amount[i] * track_add]

\* The test that closes slot i's window at max_time; s is the prompt count
\* less one.  For slot 0 the code writes it with time = 0.
ClosesByTimeOnly(time, track, max_time, i, s) == time + track >= max_time
Closes(time, track, max_time, i, s) == time + track >= max_time \/ i = s

\* The two loops of calc_time from slot i on: calc is the list built so far.
RECURSIVE CalcLoop(_, _, _, _, _, _)
CalcLoop(i, time, calc, tracks, max_time, s) ==
    IF i > 9 THEN calc
    ELSE IF Closes(time, tracks[i + 1], max_time, i, s)
         THEN CalcLoop(i + 1, max_time, Append(calc, s2t(time, max_time)), tracks, max_time, s)
         ELSE CalcLoop(i + 1, time + tracks[i + 1],
                       Append(calc, s2t(time, time + tracks[i + 1])), tracks, max_time, s)

\* calc_time(gen_type, s, duration, overlap, d0, ..., d9): calc[0..9]
calc_time(gen_type, s, duration, overlap, d_amount) ==
    CalcLoop(0, 0, <<>>, Tracks(gen_type, overlap, d_amount), duration, s - 1)

\* The values of the duration slider (1..300) and of the overlap sliders
\* (1..29 for music, 1..9 for audio) that are tried.
CalcDurations == {1, 10, 30, 59, 60, 61, 125, 300}
CalcOverlaps(gen_type) == IF gen_type = "music" THEN {1, 12, 29} ELSE {1, 2, 9}

\* d0..d9: d0 has no minimum in the interface, d1..d9 have minimum 1; the
\* first three slots and the last vary.
RepeatChoices ==
    {<<a, b, c, 1, 1, 1, 1, 1, 1, e>> :
        a \in 0..MaxRepeat, b \in 1..MaxRepeat, c \in 1..MaxRepeat, e \in {1, MaxRepeat}}

\* The "Calculate Timings" button.  Calls share no state, so a behaviour
\* holds one call.
CalcTime ==
    /\ ~calcIn.called
    /\ \E gen_type \in GenTypes, s \in 1..10, duration \in CalcDurations,
          d_amount \in RepeatChoices :
          \E overlap \in CalcOverlaps(gen_type) :
             /\ calcIn' = [called |-> TRUE, gen_type |-> gen_type, s |-> s,
                           duration |-> duration, overlap |-> overlap,
                           d_amount |-> d_amount]
             /\ calcOut' = calc_time(gen_type, s, duration, overlap, d_amount)
    /\ UNCHANGED notCalc

CalcNext == CalcTime

SpecCalc == Init /\ [][CalcNext]_vars

\* Reading a reported window back: the texts before and after " - ", and the
\* seconds a text MM:SS stands for.
SepAt(w) == CHOOSE i \in DOMAIN w : w[i] = " - "
ColonAt(t) == CHOOSE i \in DOMAIN t : t[i] = ":"
Seconds(t) == 60 * NatOf(SubSeq(t, 1, ColonAt(t) - 1)) + NatOf(SubSeq(t, ColonAt(t) + 1, Len(t)))
WindowStart(w) == Seconds(SubSeq(w, 1, SepAt(w) - 1))
WindowEnd(w) == Seconds(SubSeq(w, SepAt(w) + 1, Len(w)))

\* C7: for either generator, any duration, overlap below the capacity, prompt
\* count in 1..10 and repeat counts >= 1, the window reported for slot 9 ends
\* at duration, however the repeat counts are spread over the slots.
C7_LastWindowEndsAtDuration ==
    (calcIn.called /\ \A i \in 1..10 : calcIn.d_amount[i] >= 1) =>
        /\ Len(calcOut) = 10
        /\ WindowEnd(calcOut[10]) = calcIn.duration

\* C7 witness: ten prompts with uneven repeat counts whose segments do not
\* fill the duration: slot 9 is closed by the prompt count alone, and its
\* window starts before the duration.
C7_Witness ==
    /\ calcIn.called
    /\ calcIn.s = 10
    /\ calcIn.d_amount[1] = 3 /\ calcIn.d_amount[2] = 1 /\ calcIn.d_amount[3] = 2
    /\ calcIn.duration = 300
    /\ WindowStart(calcOut[10]) < 300
    /\ WindowEnd(calcOut[9]) < 300
    /\ WindowEnd(calcOut[10]) = 300

\* The scenario of C8.
C8Scenario ==
    /\ calcIn.called
    /\ calcIn.gen_type = "audio"
    /\ calcIn.duration = 10
    /\ calcIn.overlap = 2
    /\ calcIn.d_amount = <<3, 1, 1, 1, 1, 1, 1, 1, 1, 1>>

\* "00:10 - 00:10" and "00:00 - 00:10"
Collapsed10 == <<"0", "0", ":", "1", "0", " - ", "0", "0", ":", "1", "0">>
First10 == <<"0", "0", ":", "0", "0", " - ", "0", "0", ":", "1", "0">>

\* C8 as stated: in the scenario calc_time reports 4 distinct windows and its
\* final entry is "00:10 - 00:10".
C8_FourWindows ==
    C8Scenario =>
        /\ Cardinality({calcOut[i] : i \in 1..10}) = 4
        /\ calcOut[10] = Collapsed10

\* C8 amended: in the scenario calc_time reports 2 distinct windows,
\* "00:00 - 00:10" for slot 0 and the collapsed "00:10 - 00:10" for each of
\* the slots 1..9, the final entry included; they do not overlap.
C8_TwoWindows ==
    C8Scenario =>
        /\ calcOut[1] = First10
        /\ \A i \in 2..10 : calcOut[i] = Collapsed10
        /\ Cardinality({calcOut[i] : i \in 1..10}) = 2
        /\ WindowEnd(calcOut[1]) <= WindowStart(calcOut[2])

\* C8 witness: the scenario was calculated, with three prompts.
C8_Witness ==
    /\ C8Scenario
    /\ calcIn.s = 3
    /\ Len(calcOut) = 10

-----------------------------------------------------------------------------
(***************************************************************************)
(* predict_full: validation, model selection and the generation branch     *)
(*                                                                         *)
(* A request holds the arguments that decide what predict_full does:       *)
(* image tells whether a background image was uploaded, has_prompt whether *)
(* global_prompt or p0 is non-empty, invalid which of temperature, topk    *)
(* and topp is negative ("none": all are valid).                           *)
(***************************************************************************)

\* model = "GrandaddyShmax/musicgen-" + model, or "...audiogen-" + model
ModelName(req) ==
    IF req.gen_type = "music" THEN <<"GrandaddyShmax/musicgen-", req.model>>
    ELSE <<"GrandaddyShmax/audiogen-", req.model>>

\* The branch of _do_predictions: sample tells whether sample is not None,
\* melodies[i] whether the i-th melody is not None.
BranchIgnoringMelody(sample, melodies) ==
    IF sample THEN "generate_continuation" ELSE "generate"
Branch(sample, melodies) ==
    IF sample THEN "generate_continuation"
    ELSE IF \E i \in DOMAIN melodies : melodies[i] THEN "generate_with_chroma"
    ELSE "generate"

\* The requests of the music tab and of the audio tab.
PredRequests ==
    {[gen_type |-> "music", model |-> m, decoder |-> dec, audio |-> a, mode |-> mode,
      generate_bg_image |-> bg, image |-> img, has_prompt |-> pr, invalid |-> inv,
      called |-> TRUE] :
        m \in {"large", "melody"}, dec \in {"Default", "MultiBand_Diffusion"},
        a \in BOOLEAN, mode \in {"melody", "sample"}, bg \in BOOLEAN, img \in BOOLEAN,
        pr \in BOOLEAN, inv \in {"none", "temperature", "topk", "topp"}}
    \cup
    {[gen_type |-> "audio", model |-> "medium", decoder |-> "Default", audio |-> a,
      mode |-> "sample", generate_bg_image |-> bg, image |-> img, has_prompt |-> pr,
      invalid |-> inv, called |-> TRUE] :
        a \in BOOLEAN, bg \in BOOLEAN, img \in BOOLEAN, pr \in BOOLEAN,
        inv \in {"none", "temperature", "topk", "topp"}}

\* The process-wide state predict_full works on.
Globals ==
    [INTERRUPTING |-> INTERRUPTING, USE_DIFFUSION |-> USE_DIFFUSION, MBD |-> MBD,
     MODEL |-> MODEL]

\* predict_full(req), from its first statement to its return or its error.
\* imgOk: generate_image_from_prompt succeeds (it swallows its exceptions);
\* interrupted: interrupt() is called while the model generates, and the
\* progress callback raises.
PredictFull(req, imgOk, interrupted) ==
    /\ ~predReq.called
    /\ LET wantsImage == req.generate_bg_image /\ ~req.image /\ req.has_prompt
           png    == IF wantsImage /\ imgOk THEN 1 ELSE 0
           valid  == req.invalid = "none"
           diffusion == req.decoder = "MultiBand_Diffusion"
           done   == valid /\ ~interrupted
           outs   == IF diffusion THEN 2 ELSE 1
       IN /\ INTERRUPTING' = (valid /\ interrupted)
          /\ USE_DIFFUSION' = IF valid THEN diffusion ELSE USE_DIFFUSION
          /\ MBD' = IF valid THEN diffusion ELSE MBD
          /\ MODEL' = IF ~valid THEN MODEL
                      ELSE IF done /\ UNLOAD_MODEL THEN NoModel
                      ELSE ModelName(req)
          /\ predLog' =
                [called |-> TRUE,
                 pre |-> Globals,
                 result |-> IF ~valid THEN "error"
                            ELSE IF interrupted THEN "interrupted" ELSE "ok",
                 image_model |-> wantsImage,
                 mbd_loaded |-> valid /\ diffusion /\ ~MBD,
                 model_loaded |-> valid /\ (MODEL = NoModel \/ MODEL # ModelName(req)),
                 calls |-> IF valid THEN <<Branch(SampleOf(req), <<MelodyOf(req)>>)>>
                           ELSE <<>>,
                 created |-> png + (IF done THEN 3 * outs ELSE 0),
                 registered |-> png + (IF done THEN 3 * outs ELSE 0),
                 saved |-> done]
    /\ predReq' = req
    /\ UNCHANGED UNLOAD_MODEL
    /\ UNCHANGED notPred

\* The answer (or the error) is shown; the next request can be submitted.
Deliver ==
    /\ predReq.called
    /\ predReq' = NoCall
    /\ predLog' = NoCall
    /\ UNCHANGED <<INTERRUPTING, USE_DIFFUSION, MBD, MODEL, UNLOAD_MODEL>>
    /\ UNCHANGED notPred

\* interrupt(): the "Interrupt" button, while no request is being answered.
Interrupt ==
    /\ ~predReq.called
    /\ INTERRUPTING' = TRUE
    /\ UNCHANGED <<USE_DIFFUSION, MBD, MODEL, UNLOAD_MODEL, predReq, predLog>>
    /\ UNCHANGED notPred

PredInit ==
    /\ CleanerIdle /\ SaveIdle /\ MetaIdle /\ SplitIdle /\ CalcIdle /\ ModelsIdle
    /\ RunIdle /\ PromptIdle
    /\ INTERRUPTING = FALSE
    /\ USE_DIFFUSION = FALSE
    /\ MBD = FALSE
    /\ MODEL = NoModel
    /\ UNLOAD_MODEL \in BOOLEAN
    /\ predReq = NoCall
    /\ predLog = NoCall

PredNext ==
    \/ \E req \in PredRequests, imgOk \in BOOLEAN, interrupted \in BOOLEAN :
          PredictFull(req, imgOk, interrupted)
    \/ Deliver
    \/ Interrupt

SpecPredict == PredInit /\ [][PredNext]_vars

\* C9: a request with negative temperature, top_k or top_p is rejected before
\* any side effect: no image, diffusion or audio model is loaded or invoked,
\* no file is created or registered, and the process-wide state (active
\* model, diffusion decoder, interrupt flag) is as it was before the request.
C9_RejectedWithoutSideEffect ==
    (predReq.called /\ predReq.invalid # "none") =>
        /\ predLog.result = "error"
        /\ ~predLog.image_model
        /\ ~predLog.mbd_loaded
        /\ ~predLog.model_loaded
        /\ predLog.calls = <<>>
        /\ predLog.created = 0
        /\ predLog.registered = 0
        /\ Globals = predLog.pre

\* What holds of a rejected request: the audio model and the diffusion
\* decoder are neither loaded nor invoked and nothing is generated or saved.
RejectedBeforeAudioModel ==
    (predReq.called /\ predReq.invalid # "none") =>
        /\ predLog.result = "error"
        /\ ~predLog.mbd_loaded
        /\ ~predLog.model_loaded
        /\ predLog.calls = <<>>
        /\ ~predLog.saved
        /\ MODEL = predLog.pre.MODEL
        /\ MBD = predLog.pre.MBD
        /\ USE_DIFFUSION = predLog.pre.USE_DIFFUSION

\* C10: a request that reaches generation invokes exactly one model entry
\* point: generate_continuation if a continuation sample is present, else
\* generate_with_chroma if a melody is present, else generate.
C10_OneEntryPointByPriority ==
    (predReq.called /\ predLog.result # "error") =>
        /\ Len(predLog.calls) = 1
        /\ predLog.calls[1] =
              IF predReq.audio /\ predReq.mode = "sample" THEN "generate_continuation"
              ELSE IF predReq.audio /\ predReq.mode = "melody" THEN "generate_with_chroma"
              ELSE "generate"

\* C10 witness: a music request with a melody was generated with
\* generate_with_chroma, after an earlier request.
C10_Witness ==
    /\ predReq.called
    /\ predReq.audio /\ predReq.mode = "melody"
    /\ predLog.result = "ok"
    /\ predLog.calls = <<"generate_with_chroma">>
    /\ predLog.pre.MODEL # NoModel

-----------------------------------------------------------------------------
(***************************************************************************)
(* load_model, the model cache and the handling of the model after a       *)
(* generation                                                              *)
(***************************************************************************)

\* The instances something still refers to: MODEL and the values of MODELS.
\* An instance nothing refers to is freed, so it is on no device.
Collect(dev, M, C) ==
    [v \in Versions |-> IF v = M \/ v \in C.keys THEN dev[v] ELSE "-"]

\* load_model(version, ...) from the state (M, C, dev) = (MODEL, MODELS,
\* device): the state it leaves, and whether it raised.  get_pretrained puts
\* the new instance on the accelerator; instance.name is the identifier.
load_model(version, M, C, dev) ==
    IF C.is_none
    THEN [MODEL |-> version, MODELS |-> C,
          device |-> Collect([dev EXCEPT ![version] = "cuda"], version, C),
          raised |-> FALSE]
    ELSE LET moved == IF M # NoModel THEN [dev EXCEPT ![M] = "cpu"] ELSE dev
         IN IF version # Custom /\ version \notin C.keys
            THEN [MODEL |-> version, MODELS |-> [C EXCEPT !.keys = @ \cup {version}],
                  device |-> [moved EXCEPT ![version] = "cuda"], raised |-> FALSE]
            ELSE IF version \notin C.keys
            THEN \* MODELS[version]: KeyError, after the previous model was moved
                 [MODEL |-> M, MODELS |-> C, device |-> moved, raised |-> TRUE]
            ELSE [MODEL |-> version, MODELS |-> C,
                  device |-> [moved EXCEPT ![version] = "cuda"], raised |-> FALSE]

\* predict_full, lines 888-899: the model of the request is made the active
\* one, by load_model unless it is the active one already.
SelectModel ==
    /\ ~loadReq.called
    /\ \E version \in Versions :
        LET loads == MODEL = NoModel \/ MODEL # version
            r == IF loads THEN load_model(version, MODEL, MODELS, device)
                 ELSE [MODEL |-> MODEL, MODELS |-> MODELS, raised |-> FALSE,
                       device |-> IF MOVE_TO_CPU
                                  THEN [device EXCEPT ![MODEL] = "cuda"]
                                  ELSE device]
        IN /\ MODEL' = r.MODEL
           /\ MODELS' = r.MODELS
           /\ device' = r.device
           /\ loadReq' = [called |-> TRUE, version |-> version, loads |-> loads,
                          raised |-> r.raised,
                          pre |-> [MODEL |-> MODEL, MODELS |-> MODELS]]
    /\ UNCHANGED MOVE_TO_CPU
    /\ UNCHANGED notModels

\* _do_predictions from the generation to its return.  An interrupted
\* generation raises out of the model call, so lines 629-634 are not reached.
FinishPredictions ==
    /\ loadReq.called /\ ~loadReq.raised
    /\ \E interrupted \in BOOLEAN :
        LET moved == IF MOVE_TO_CPU THEN [device EXCEPT ![MODEL] = "cpu"] ELSE device
            M == IF UNLOAD_MODEL THEN NoModel ELSE MODEL
        IN IF interrupted
           THEN UNCHANGED <<MODEL, device>>
           ELSE /\ MODEL' = M
                /\ device' = Collect(moved, M, MODELS)
    /\ loadReq' = NoCall
    /\ UNCHANGED <<MODELS, MOVE_TO_CPU>>
    /\ UNCHANGED notModels

\* load_model raised: the request ends with that error.
LoadFailed ==
    /\ loadReq.called /\ loadReq.raised
    /\ loadReq' = NoCall
    /\ UNCHANGED <<MODEL, MODELS, MOVE_TO_CPU, device>>
    /\ UNCHANGED notModels

\* The launch options --cache, --unload_model and --unload_to_cpu.
ModelsInit ==
    /\ CleanerIdle /\ SaveIdle /\ MetaIdle /\ SplitIdle /\ CalcIdle /\ RunIdle /\ PromptIdle
    /\ INTERRUPTING = FALSE
    /\ USE_DIFFUSION = FALSE
    /\ MBD = FALSE
    /\ MODEL = NoModel
    /\ UNLOAD_MODEL \in BOOLEAN
    /\ predReq = NoCall
    /\ predLog = NoCall
    /\ \E cache \in BOOLEAN : MODELS = [is_none |-> ~cache, keys |-> {}]
    /\ MOVE_TO_CPU \in BOOLEAN
    /\ device = NoDevice
    /\ loadReq = NoCall

ModelsNext ==
    \/ SelectModel
    \/ FinishPredictions
    \/ LoadFailed

SpecModels == ModelsInit /\ [][ModelsNext]_vars

OnAccelerator == {v \in Versions : device[v] = "cuda"}

\* C12: in every reachable state, whatever the cache, unload_model and
\* unload_to_cpu options and whatever models the requests ask for, at most
\* one model instance is on the accelerator; every other cached model is in
\* host memory.
C12_OneModelOnAccelerator ==
    /\ Cardinality(OnAccelerator) <= 1
    /\ \A v \in MODELS.keys : v # MODEL => device[v] = "cpu"

\* The same holds unless the cache is combined with unload_model alone.
OneModelOnAcceleratorUnlessCachedUnload ==
    ~(~MODELS.is_none /\ UNLOAD_MODEL /\ ~MOVE_TO_CPU) => C12_OneModelOnAccelerator

\* C13: with the cache enabled, load_model for an identifier other than the
\* active one (the custom-model identifier included) completes and makes
\* that model the active one, resident in the cache and on the accelerator;
\* the model active before is moved to host memory and stays in the cache.
C13_CachedLoadCompletes ==
    (loadReq.called /\ loadReq.loads /\ ~MODELS.is_none) =>
        /\ ~loadReq.raised
        /\ MODEL = loadReq.version
        /\ loadReq.version \in MODELS.keys
        /\ device[loadReq.version] = "cuda"
        /\ loadReq.pre.MODELS.keys \subseteq MODELS.keys
        /\ loadReq.pre.MODEL # NoModel =>
              /\ loadReq.pre.MODEL \in MODELS.keys
              /\ device[loadReq.pre.MODEL] = "cpu"

\* The same holds for every identifier but the custom-model one.
CachedLoadCompletesUnlessCustom ==
    (loadReq.called /\ loadReq.version # Custom) => C13_CachedLoadCompletes

-----------------------------------------------------------------------------
(***************************************************************************)
(* calc_time: the window of slot 0                                         *)
(***************************************************************************)

\* min(duration, capacity + (r0 - 1) * (capacity - overlap)) for the call
Slot0Bound ==
    LET capacity == IF calcIn.gen_type = "music" THEN 30 ELSE 10
        reach == capacity + (calcIn.d_amount[1] - 1) * (capacity - calcIn.overlap)
    IN IF calcIn.duration <= reach THEN calcIn.duration ELSE reach

\* C20 as stated: for every input of calc_time, a prompt count of 1 included,
\* slot 0's window is [0, min(duration, capacity + (r0 - 1) * (capacity -
\* overlap))].
C20_Slot0Window ==
    calcIn.called =>
        /\ WindowStart(calcOut[1]) = 0
        /\ WindowEnd(calcOut[1]) = Slot0Bound

\* C20 amended: slot 0's window is [0, min(duration, capacity + (r0 - 1) *
\* (capacity - overlap))] when the prompt count is at least 2, and
\* [0, duration] when the prompt count is 1.
C20_Slot0WindowUnlessSinglePrompt ==
    calcIn.called =>
        /\ WindowStart(calcOut[1]) = 0
        /\ WindowEnd(calcOut[1]) = IF calcIn.s = 1 THEN calcIn.duration ELSE Slot0Bound

\* C20 witness: one prompt repeated three times whose segments end before the
\* duration, reported as [0, duration]; the same repeats with two prompts
\* are covered by the other branch.
C20_Witness ==
    /\ calcIn.called
    /\ calcIn.s = 1
    /\ calcIn.d_amount[1] = 3
    /\ Slot0Bound < calcIn.duration
    /\ WindowEnd(calcOut[1]) = calcIn.duration

-----------------------------------------------------------------------------
(***************************************************************************)
(* One request, statement by statement: predict_full, the progress         *)
(* callback, _do_predictions from the generation to its return, the render *)
(* tasks in the worker pool, save_outputs and the removal of the outputs   *)
(***************************************************************************)

\* Bounds: the temporary paths of a behaviour, the progress callbacks of one
\* generation, and the number of times more than file_lifetime passes.
MaxRunPaths == 10
MaxCallbacks == 1
MaxTicks == 1

\* The clock advances by more than file_lifetime at once.
RunClockStep == file_lifetime + 1

\* The model every request of this component asks for.
RunVersion == <<"GrandaddyShmax/musicgen-", "melody">>

\* The temporary paths.  A request needs up to seven: a background image
\* and, for each of its two takes, a wav, a video and a backup wav.
AllPaths == 1..MaxRunPaths

\* _progress: `if INTERRUPTING: raise gr.Error("Interrupted.")`
ProgressNeverRaises(flag) == FALSE
ProgressRaises(flag) == flag

\* predict_full's first statement: `INTERRUPTING = False`
FlagKeptAtStart(flag) == flag
FlagAtStart(flag) == FALSE

\* out_file.result() returns, or raises, once the task is no longer running.
ResultReadyAlways(task) == TRUE
ResultReady(task) == task # "submitted"

\* A registry that forgets what it is given.
RegistryAddNothing(p, dsk, locked) ==
    [files |-> files, disk |-> dsk, unlinked |-> unlinked, registered |-> registered,
     raised |-> FALSE]

\* file_cleaner.add(p) at the clock value `now` on the filesystem dsk:
\* _cleanup, then the append unless _cleanup raised.
RegistryAdd(p, dsk, locked) ==
    LET st == CleanupLoop(files, 1, now,
                          [live |-> files, disk |-> dsk, unl |-> unlinked,
                           raised |-> FALSE], locked)
    IN [files |-> IF st.raised THEN st.live
                  ELSE Append(st.live, [time_added |-> now, path |-> p]),
        disk |-> st.disk,
        unlinked |-> st.unl,
        registered |-> IF st.raised \/ p \notin DOMAIN registered THEN registered
                       ELSE [registered EXCEPT ![p] = now],
        raised |-> st.raised]

SetRegistry(r) ==
    /\ files' = r.files
    /\ disk' = r.disk
    /\ unlinked' = r.unlinked
    /\ registered' = r.registered
    /\ sweepNow' = now

\* The request ends: with its response ("ok") or with the error that was raised.
EndRequest(result, hot) ==
    /\ runLog' = [called |-> TRUE, result |-> result, stale |-> run.stale,
                  pressedGen |-> run.pressedGen, pressedLate |-> run.pressedLate,
                  hotCallbacks |-> hot, emptied |-> run.emptied,
                  saved |-> run.saved]
    /\ runPc' = "idle"
    /\ run' = NoRun
    /\ events' = <<>>

\* predict_full up to the generation: the flag is cleared, the background
\* image is generated and registered (an error of file_cleaner.add is caught
\* there and leaves image = None), the decoder and the model are selected.
RunStart ==
    /\ runPc = "idle"
    /\ nextPath + 6 <= MaxRunPaths
    /\ \E diffusion \in BOOLEAN, genImage \in BOOLEAN, locked \in {{}, AllPaths} :
        LET p == nextPath
            r == RegistryAdd(p, disk \cup {p}, locked)
            loads == MODEL = NoModel \/ MODEL # RunVersion
            m == IF loads THEN load_model(RunVersion, MODEL, MODELS, device)
                 ELSE [MODEL |-> MODEL,
                       device |-> IF MOVE_TO_CPU THEN [device EXCEPT ![MODEL] = "cuda"]
                                  ELSE device]
        IN /\ INTERRUPTING' = FlagAtStart(INTERRUPTING)
           /\ IF genImage
              THEN /\ SetRegistry(r)
                   /\ nextPath' = p + 1
              ELSE UNCHANGED <<files, disk, unlinked, registered, sweepNow, nextPath>>
           /\ USE_DIFFUSION' = diffusion
           /\ MBD' = diffusion
           /\ MODEL' = m.MODEL
           /\ device' = m.device
           /\ run' = [NoRun EXCEPT !.image = IF genImage /\ ~r.raised THEN p ELSE 0,
                                   !.left = MaxCallbacks,
                                   !.stale = INTERRUPTING]
    /\ runPc' = "generating"
    /\ runLog' = NoCall
    /\ UNCHANGED <<now, events, removed, persisted>>
    /\ UNCHANGED notRun

\* interrupt(): the button works at any time, it is not queued.
RunInterrupt ==
    /\ INTERRUPTING' = TRUE
    /\ run' = IF runPc = "idle" THEN run
              ELSE [run EXCEPT
                      !.pressedGen = @ \/ runPc = "generating",
                      !.pressedLate = @ \/ runPc # "generating" \/ run.left = 0]
    /\ UNCHANGED <<cleanerVars, USE_DIFFUSION, MBD, MODEL, device>>
    /\ UNCHANGED <<runPc, runLog, events, removed, persisted>>
    /\ UNCHANGED notRun

\* One step of the generation ends with the callback _progress.
RunProgress ==
    /\ runPc = "generating"
    /\ run.left > 0
    /\ LET hot == run.hotCallbacks + (IF run.pressedGen THEN 1 ELSE 0)
       IN IF ProgressRaises(INTERRUPTING)
          THEN EndRequest("Interrupted.", hot)
          ELSE /\ run' = [run EXCEPT !.left = @ - 1, !.hotCallbacks = hot]
               /\ UNCHANGED <<runPc, runLog, events>>
    /\ UNCHANGED <<cleanerVars, INTERRUPTING, USE_DIFFUSION, MBD, MODEL, device>>
    /\ UNCHANGED <<removed, persisted>>
    /\ UNCHANGED notRun

\* The generation returns; with the diffusion decoder there are two takes.
RunGenerated ==
    /\ runPc = "generating"
    /\ run.left = 0
    /\ run' = [run EXCEPT !.takes = IF USE_DIFFUSION THEN 2 ELSE 1, !.i = 1]
    /\ runPc' = "write"
    /\ UNCHANGED <<cleanerVars, INTERRUPTING, USE_DIFFUSION, MBD, MODEL, device>>
    /\ UNCHANGED <<runLog, events, removed, persisted>>
    /\ UNCHANGED notRun

\* The body of the loop over the outputs: the wav is written, its render
\* task is submitted, the wav is registered.  The path after the wav's is
\* the name the task will give its video.
RunWriteTake ==
    /\ runPc = "write"
    /\ \E locked \in {{}, AllPaths} :
        LET p == nextPath
            r == RegistryAdd(p, disk \cup {p}, locked)
        IN /\ SetRegistry(r)
           /\ IF r.raised
              THEN EndRequest("unlink error", run.hotCallbacks)
              ELSE /\ run' = [run EXCEPT !.wavs = Append(@, p),
                                         !.tasks = Append(@, "submitted"),
                                         !.videos = Append(@, p + 1),
                                         !.i = IF @ < run.takes THEN @ + 1 ELSE 1]
                   /\ runPc' = IF run.i < run.takes THEN "write" ELSE "backup"
                   /\ events' = Append(events, [e |-> "submit", i |-> run.i])
                   /\ UNCHANGED runLog
    /\ nextPath' = nextPath + 2
    /\ UNCHANGED <<now, INTERRUPTING, USE_DIFFUSION, MBD, MODEL, device>>
    /\ UNCHANGED <<removed, persisted>>
    /\ UNCHANGED notRun

\* The body of the loop over the backups: written and registered.
RunWriteBackup ==
    /\ runPc = "backup"
    /\ \E locked \in {{}, AllPaths} :
        LET p == nextPath
            r == RegistryAdd(p, disk \cup {p}, locked)
        IN /\ SetRegistry(r)
           /\ IF r.raised
              THEN EndRequest("unlink error", run.hotCallbacks)
              ELSE /\ run' = [run EXCEPT !.backups = Append(@, p),
                                         !.i = IF @ < run.takes THEN @ + 1 ELSE 1]
                   /\ runPc' = IF run.i < run.takes THEN "backup" ELSE "await"
                   /\ UNCHANGED <<runLog, events>>
    /\ nextPath' = nextPath + 1
    /\ UNCHANGED <<now, INTERRUPTING, USE_DIFFUSION, MBD, MODEL, device>>
    /\ UNCHANGED <<removed, persisted>>
    /\ UNCHANGED notRun

\* make_waveform in a worker process: it reads the wav and the background
\* image and writes the video into the working directory, or fails when one
\* of its inputs is gone.
RunRenderDone ==
    /\ runPc # "idle"
    /\ \E i \in DOMAIN run.tasks :
        /\ run.tasks[i] = "submitted"
        /\ IF run.wavs[i] \in disk /\ (run.image = 0 \/ run.image \in disk)
           THEN /\ run' = [run EXCEPT !.tasks[i] = "done"]
                /\ disk' = disk \cup {run.videos[i]}
           ELSE /\ run' = [run EXCEPT !.tasks[i] = "failed"]
                /\ UNCHANGED disk
    /\ UNCHANGED <<files, now, sweepNow, registered, unlinked, nextPath>>
    /\ UNCHANGED <<INTERRUPTING, USE_DIFFUSION, MBD, MODEL, device>>
    /\ UNCHANGED <<runPc, runLog, events, removed, persisted>>
    /\ UNCHANGED notRun

\* res = [out_file.result() for out_file in out_files], one result at a time.
\* The event records what the task was doing when result() returned.
RunAwait ==
    /\ runPc = "await"
    /\ ResultReady(run.tasks[run.i])
    /\ IF run.tasks[run.i] = "failed"
       THEN EndRequest("render error", run.hotCallbacks)
       ELSE /\ run' = [run EXCEPT !.i = IF @ < run.takes THEN @ + 1 ELSE 1]
            /\ runPc' = IF run.i < run.takes THEN "await" ELSE "video"
            /\ events' = Append(events, [e |-> "await", i |-> run.i,
                                         task |-> run.tasks[run.i]])
            /\ UNCHANGED runLog
    /\ UNCHANGED <<cleanerVars, INTERRUPTING, USE_DIFFUSION, MBD, MODEL, device>>
    /\ UNCHANGED <<removed, persisted>>
    /\ UNCHANGED notRun

\* The body of the loop over the videos: each is registered.
RunRegisterVideo ==
    /\ runPc = "video"
    /\ \E locked \in {{}, AllPaths} :
        LET r == RegistryAdd(run.videos[run.i], disk, locked)
        IN /\ SetRegistry(r)
           /\ IF r.raised
              THEN EndRequest("unlink error", run.hotCallbacks)
              ELSE /\ run' = [run EXCEPT !.i = IF @ < run.takes THEN @ + 1 ELSE 1]
                   /\ runPc' = IF run.i < run.takes THEN "video" ELSE "unload"
                   /\ UNCHANGED <<runLog, events>>
    /\ UNCHANGED <<now, nextPath, INTERRUPTING, USE_DIFFUSION, MBD, MODEL, device>>
    /\ UNCHANGED <<removed, persisted>>
    /\ UNCHANGED notRun

\* The end of _do_predictions: the model is moved or dropped as configured,
\* the allocator cache is released, the function returns.  The event records
\* the tasks still running at the return.
RunUnload ==
    /\ runPc = "unload"
    /\ LET moved == IF MOVE_TO_CPU THEN [device EXCEPT ![MODEL] = "cpu"] ELSE device
           M == IF UNLOAD_MODEL THEN NoModel ELSE MODEL
       IN /\ MODEL' = M
          /\ device' = Collect(moved, M, MODELS)
    /\ run' = [run EXCEPT !.emptied = TRUE]
    /\ events' = Append(events,
                   [e |-> "return",
                    running |-> {i \in DOMAIN run.tasks : run.tasks[i] = "submitted"}])
    /\ runPc' = "save"
    /\ UNCHANGED <<cleanerVars, INTERRUPTING, USE_DIFFUSION, MBD>>
    /\ UNCHANGED <<runLog, removed, persisted>>
    /\ UNCHANGED notRun

\* save_outputs(outs[0], outs_audio[0], ...): the first take is copied into
\* the dated output tree; a missing source makes the copy raise.
RunSave ==
    /\ runPc = "save"
    /\ IF run.videos[1] \in disk /\ run.wavs[1] \in disk
       THEN /\ persisted' = persisted + 1
            /\ run' = [run EXCEPT !.saved = TRUE]
            /\ runPc' = "remove"
            /\ UNCHANGED <<runLog, events>>
       ELSE /\ EndRequest("copy error", run.hotCallbacks)
            /\ UNCHANGED persisted
    /\ UNCHANGED <<cleanerVars, INTERRUPTING, USE_DIFFUSION, MBD, MODEL, device>>
    /\ UNCHANGED removed
    /\ UNCHANGED notRun

\* The files os.remove is called on, in order, and those it removes: all of
\* them, or the ones before the first that is missing (os.remove raises there).
RemoveListWithBackups ==
    [j \in 1..(3 * run.takes) |->
        IF j <= run.takes THEN [path |-> run.videos[j], kind |-> "video"]
        ELSE IF j <= 2 * run.takes THEN [path |-> run.wavs[j - run.takes], kind |-> "wav"]
        ELSE [path |-> run.backups[j - 2 * run.takes], kind |-> "backup"]]
RemoveList ==
    [j \in 1..(2 * run.takes) |->
        IF j <= run.takes THEN [path |-> run.videos[j], kind |-> "video"]
        ELSE [path |-> run.wavs[j - run.takes], kind |-> "wav"]]
RemovedByRequest ==
    {RemoveList[j] : j \in {k \in DOMAIN RemoveList :
                              \A h \in 1..k : RemoveList[h].path \in disk}}

\* predict_full removes every video and every wav of the request, then returns.
RunRemove ==
    /\ runPc = "remove"
    /\ removed' = removed \cup RemovedByRequest
    /\ disk' = disk \ {f.path : f \in RemovedByRequest}
    /\ IF \A j \in DOMAIN RemoveList : RemoveList[j].path \in disk
       THEN EndRequest("ok", run.hotCallbacks)
       ELSE EndRequest("remove error", run.hotCallbacks)
    /\ UNCHANGED <<files, now, sweepNow, registered, unlinked, nextPath>>
    /\ UNCHANGED <<INTERRUPTING, USE_DIFFUSION, MBD, MODEL, device>>
    /\ UNCHANGED persisted
    /\ UNCHANGED notRun

\* More than file_lifetime passes.
RunTick ==
    /\ now + RunClockStep <= MaxTicks * RunClockStep
    /\ now' = now + RunClockStep
    /\ UNCHANGED <<files, disk, sweepNow, registered, unlinked, nextPath>>
    /\ UNCHANGED <<INTERRUPTING, USE_DIFFUSION, MBD, MODEL, device>>
    /\ UNCHANGED runVars
    /\ UNCHANGED notRun

\* The service is launched without --cache, with any of the two unload options.
RunInit ==
    /\ files = <<>>
    /\ disk = {}
    /\ now = 0
    /\ sweepNow = -1
    /\ registered = [p \in AllPaths |-> -1]
    /\ unlinked = {}
    /\ nextPath = 1
    /\ SaveIdle /\ MetaIdle /\ SplitIdle /\ CalcIdle
    /\ INTERRUPTING = FALSE
    /\ USE_DIFFUSION = FALSE
    /\ MBD = FALSE
    /\ MODEL = NoModel
    /\ UNLOAD_MODEL \in BOOLEAN
    /\ predReq = NoCall
    /\ predLog = NoCall
    /\ MODELS = [is_none |-> TRUE, keys |-> {}]
    /\ MOVE_TO_CPU \in BOOLEAN
    /\ device = NoDevice
    /\ loadReq = NoCall
    /\ RunIdle /\ PromptIdle

RunNext ==
    \/ RunStart
    \/ RunInterrupt
    \/ RunProgress
    \/ RunGenerated
    \/ RunWriteTake
    \/ RunWriteBackup
    \/ RunRenderDone
    \/ RunAwait
    \/ RunRegisterVideo
    \/ RunUnload
    \/ RunSave
    \/ RunRemove
    \/ RunTick

SpecRun == RunInit /\ [][RunNext]_vars

Range(f) == {f[x] : x \in DOMAIN f}
InFlightFiles ==
    (IF run.image = 0 THEN {} ELSE {run.image})
        \cup Range(run.wavs) \cup Range(run.backups) \cup Range(run.videos)
Unlinked == {u.path : u \in unlinked}

C15_NoSweepOfInFlightFile ==
    runPc # "idle" => Unlinked \cap InFlightFiles = {}

\* C16: a failure to delete an expired file during the sweep never leaves
\* FileCleaner.add: no request ends with the error of an unlink.
C16_AddReturnsNormally ==
    runLog.called => runLog.result # "unlink error"

Submits == {j \in DOMAIN events : events[j].e = "submit"}

\* C17: within a request exactly one render task is submitted per take, no
\* result is awaited before all render tasks of the request are submitted,
\* and _do_predictions returns only after every submitted task has completed.
C17_RenderTasks ==
    /\ \A j, k \in Submits : events[j].i = events[k].i => j = k
    /\ runPc \in {"backup", "await", "video", "unload", "save", "remove"} =>
          {events[j].i : j \in Submits} = 1..run.takes
    /\ \A j \in DOMAIN events :
          /\ events[j].e = "await" =>
                Cardinality({k \in Submits : k < j}) = run.takes
          /\ events[j].e = "return" =>
                /\ events[j].running = {}
                /\ Cardinality({k \in 1..j : events[k].e = "await"}) = run.takes

\* C17 witness: _do_predictions has returned for a request with two takes.
C17_Witness ==
    /\ runPc = "save"
    /\ run.takes = 2
    /\ Len(events) = 5
    /\ events[5].e = "return"

\* C18: when a request is interrupted, the model handling configured for the
\* end of a generation (move the model off the accelerator, or drop it) and
\* the release of the allocator cache are performed as for a completed one.
C18_InterruptedRequestCleansUp ==
    (runPc = "idle" /\ runLog.called /\ runLog.result = "Interrupted.") =>
        /\ runLog.emptied
        /\ MOVE_TO_CPU => OnAccelerator = {}
        /\ UNLOAD_MODEL => MODEL = NoModel

\* C19: cancellation is observed only in the progress callback.  A request
\* ends with "Interrupted." only after a callback that followed an interrupt
\* signalled during its own generation; an interrupt signalled while idle or
\* after the last callback aborts nothing, and the flag is cleared when the
\* next request starts: while a request is answered the flag is set only if
\* the interrupt was signalled during that request.
C19_OnlyCallbackObservesInterrupt ==
    /\ (runLog.called /\ runLog.result = "Interrupted.") => runLog.hotCallbacks >= 1
    /\ (runPc # "idle" /\ INTERRUPTING) => (run.pressedGen \/ run.pressedLate)
    /\ (runPc # "idle" /\ run.pressedLate /\ ~run.pressedGen) => run.hotCallbacks = 0

\* C19 witness: a request that started with the flag still set, had the
\* interrupt signalled again after its last callback, and returned its
\* response with its outputs persisted.
C19_Witness ==
    /\ runLog.called
    /\ runLog.stale
    /\ runLog.pressedLate
    /\ runLog.result = "ok"
    /\ runLog.saved

-----------------------------------------------------------------------------
(***************************************************************************)
(* calc_time: the form of the ten windows                                  *)
(***************************************************************************)

\* w is "dd:dd - dd:dd"; the two seconds fields read as numbers.
IsWindow(w) ==
    /\ Len(w) = 11
    /\ w[3] = ":" /\ w[6] = " - " /\ w[9] = ":"
    /\ \A k \in {1, 2, 4, 5, 7, 8, 10, 11} : IsDigit(w[k])
StartSeconds(w) == NatOf(SubSeq(w, 4, 5))
EndSeconds(w) == NatOf(SubSeq(w, 10, 11))

\* C21: for all durations, overlaps below the capacity, prompt counts 1..10
\* and repeat counts >= 1, calc_time returns exactly 10 strings, each a
\* well-formed "mm:ss - mm:ss" window whose two seconds fields lie in 00..59
\* and whose start is not later than its end.
C21_WellFormedWindows ==
    (calcIn.called /\ \A i \in 1..10 : calcIn.d_amount[i] >= 1) =>
        /\ Len(calcOut) = 10
        /\ \A i \in 1..10 :
              /\ IsWindow(calcOut[i])
              /\ StartSeconds(calcOut[i]) <= 59
              /\ EndSeconds(calcOut[i]) <= 59
              /\ WindowStart(calcOut[i]) <= WindowEnd(calcOut[i])

\* All of it holds but for the seconds field of a start, which reaches 60.
WellFormedWindowsUpToSixty ==
    (calcIn.called /\ \A i \in 1..10 : calcIn.d_amount[i] >= 1) =>
        /\ Len(calcOut) = 10
        /\ \A i \in 1..10 :
              /\ IsWindow(calcOut[i])
              /\ StartSeconds(calcOut[i]) <= 60
              /\ EndSeconds(calcOut[i]) <= 59
              /\ WindowStart(calcOut[i]) <= WindowEnd(calcOut[i])

\* ---------------------------------------------------------------------------
\* predict_full: the assembly of the prompts
\* ---------------------------------------------------------------------------

\* The instrument dropdown.  A choice is a sequence of lexemes; the first
\* choice is the label that stands for "no instrument", every other choice is
\* a label followed by the English name in parentheses.
NoInstrument == <<"no instrument">>
InstrumentChoices ==
    {NoInstrument, <<"gangqin", "(", "piano", ")">>,
     <<"dian jita", "(", "electric guitar", ")">>}

\* str.split(sep): the pieces of s between the occurrences of sep
RECURSIVE Split(_, _)
Split(s, sep) ==
    IF \A k \in 1..Len(s) : s[k] # sep THEN <<s>>
    ELSE LET k == CHOOSE k \in 1..Len(s) :
                      s[k] = sep /\ \A j \in 1..(k - 1) : s[j] # sep
         IN <<SubSeq(s, 1, k - 1)>> \o Split(SubSeq(s, k + 1, Len(s)), sep)

\* instrument_text
InstrumentText(instrument) ==
    IF instrument = NoInstrument THEN <<>>
    ELSE IF (\E k \in 1..Len(instrument) : instrument[k] = "(")
             /\ (\E k \in 1..Len(instrument) : instrument[k] = ")")
         THEN Split(Split(instrument, "(")[2], ")")[1]
         ELSE instrument

\* `if instrument_text and prompt: prompt = f"{prompt}, {instrument_text}"`
WithInstrument(text, instrument_text) ==
    IF instrument_text # <<>> /\ text # <<>> THEN text \o <<", ">> \o instrument_text
    ELSE text

\* The string appended to texts in structured mode:
\* bpm_str + key_str + global_str + texts_str
StructuredPrompt(req, instrument_text, ind) ==
    LET music == req.gen_type = "music"
        bpm_str == IF music THEN StrInt(req.bpm) \o <<" bpm">> ELSE <<>>
        key_str == IF music THEN <<", ", req.key, " ", req.scale>> ELSE <<>>
        global_str == IF req.global_prompt = <<>> THEN <<>>
                      ELSE IF music THEN <<", ">> \o req.global_prompt
                      ELSE req.global_prompt
        prompt_text == WithInstrument(req.text_cat[ind], instrument_text)
        texts_str == IF prompt_text # <<>> THEN <<", ">> \o prompt_text ELSE <<>>
    IN bpm_str \o key_str \o global_str \o texts_str

\* The string one pass of the inner loop appends to texts.
PromptEntry(req, instrument_text, ind) ==
    IF ~req.struc_prompt THEN WithInstrument(req.text_cat[ind], instrument_text)
    ELSE StructuredPrompt(req, instrument_text, ind)

\* The passes of `for ind2 in range(int(drag_cat[ind]))`.
OnePass(req, ind) == 1
Passes(req, ind) == IF req.drag_cat[ind] < 0 THEN 0 ELSE req.drag_cat[ind]

\* The loop `while ind < prompt_amount`: the lists texts and raw_texts.
RECURSIVE AssemblePrompts(_, _, _)
AssemblePrompts(req, instrument_text, ind) ==
    IF ind > req.prompt_amount THEN [texts |-> <<>>, raw_texts |-> <<>>]
    ELSE LET rest == AssemblePrompts(req, instrument_text, ind + 1)
         IN [texts |-> Times(PromptEntry(req, instrument_text, ind), Passes(req, ind))
                       \o rest.texts,
             raw_texts |-> Times(req.text_cat[ind], Passes(req, ind)) \o rest.raw_texts]

\* A request reaches the assembly of predict_full.
PredictFullPrompts ==
    /\ ~promptIn.called
    /\ \E req \in Requests, instrument \in InstrumentChoices :
          /\ promptIn' = [called |-> TRUE, req |-> req, instrument |-> instrument]
          /\ promptOut' = AssemblePrompts(req, InstrumentText(instrument), 1)
    /\ UNCHANGED notPrompt

PromptNext == PredictFullPrompts
SpecPrompts == Init /\ [][PromptNext]_vars

\* The fields of a list that are not empty, joined by ", ".
RECURSIVE JoinNonEmpty(_)
JoinNonEmpty(fields) ==
    IF fields = <<>> THEN <<>>
    ELSE LET rest == JoinNonEmpty(Tail(fields))
         IN IF Head(fields) = <<>> THEN rest
            ELSE IF rest = <<>> THEN Head(fields)
            ELSE Head(fields) \o <<", ">> \o rest

\* The fields of the template for segment ind: tempo and key for music, then
\* the global prompt, then the segment's text with its instrument suffix.
TemplateFields(req, instrument, ind) ==
    (IF req.gen_type = "music"
     THEN <<StrInt(req.bpm) \o <<" bpm">>, <<req.key, " ", req.scale>>>> ELSE <<>>)
    \o <<req.global_prompt,
         WithInstrument(req.text_cat[ind], InstrumentText(instrument))>>

\* The segment that produced the j-th entry, and the number of entries the
\* segments from ind on are asked for.
RECURSIVE SegmentOf(_, _, _)
SegmentOf(req, j, ind) ==
    IF j <= req.drag_cat[ind] \/ ind >= 10 THEN ind
    ELSE SegmentOf(req, j - req.drag_cat[ind], ind + 1)

RECURSIVE SumRepeats(_, _)
SumRepeats(req, ind) ==
    IF ind > req.prompt_amount THEN 0 ELSE req.drag_cat[ind] + SumRepeats(req, ind + 1)

\* C22: in structured mode, for music and for audio, every entry of texts is
\* the non-empty fields of the template, in order, joined by ", ", with no
\* leading, trailing or doubled separator.
C22_StructuredPromptElision ==
    (promptIn.called /\ promptIn.req.struc_prompt) =>
        \A j \in 1..Len(promptOut.texts) :
            promptOut.texts[j] =
                JoinNonEmpty(TemplateFields(promptIn.req, promptIn.instrument,
                                            SegmentOf(promptIn.req, j, 1)))

DurationRaised ==
    (splitIn.called /\ splitIn.sample /\ splitIn.duration <= splitOut.sample_length) =>
        splitOut.duration = splitOut.sample_length + 4

\* A rate at which two samples last no longer than the half second the
\* duration is raised by, as every rate of an audio file is.
ShortSamples(sr) == 2 * 8 <= 4 * sr

\* C24: with a continuation sample, a duration not greater than the trimmed
\* sample length is raised to that length plus 0.5 s, and in every case the
\* duration handed to the model (duration - cut_size) is strictly greater
\* than the length of the prompt handed to it (sampleM samples at rate sr).
C24_DurationExceedsPrompt ==
    (splitIn.called /\ splitIn.sample /\ ShortSamples(splitIn.sr)) =>
        /\ (splitIn.duration <= splitOut.sample_length =>
                splitOut.duration = splitOut.sample_length + 4)
        /\ (splitOut.duration - splitOut.cut_size) * splitIn.sr > 8 * splitOut.sampleM

\* The trims the slice of the sample is taken with.
TrimsUsed ==
    ClampTrims((8 * splitIn.n) \div splitIn.sr, splitIn.trim_start, splitIn.trim_end)

\* What holds of the trims for every sample: they add up to less than the
\* sample's length.
TrimsBelowLength ==
    (splitIn.called /\ splitIn.sample) =>
        TrimsUsed.trim_start + TrimsUsed.trim_end < (8 * splitIn.n) \div splitIn.sr

\* C25: for every sample of positive length and every requested trim, the
\* trims used to slice the sample are not negative and add up to less than
\* the sample's length, and the trimmed sample is not empty.
C25_TrimsWithinSample ==
    (splitIn.called /\ splitIn.sample) =>
        /\ TrimsUsed.trim_start >= 0
        /\ TrimsUsed.trim_end >= 0
        /\ TrimsUsed.trim_start + TrimsUsed.trim_end < (8 * splitIn.n) \div splitIn.sr
        /\ splitOut.trimmed > 0

-----------------------------------------------------------------------------
(***************************************************************************)
(* get_audio_info: the text shown for an uploaded file                     *)
(*                                                                         *)
(* Besides the kinds of file of the decoders there is "malformed": a file  *)
(* with a supported extension whose COMMENT tag, or whose content for a    *)
(* .json file, is not JSON.                                                *)
(***************************************************************************)

\* The messages of lines 186 and 212 (tagged files) and of line 242 (.json).
NoTagsFound(kind) ==
    IF kind = "json" THEN <<"No tags found. (...) the tags are corrupted.">>
    ELSE <<"No tags found. (...) the tags are corrupted. (Discord removes (...))">>

\* `info` as lines 189-210 and 219-240 build it from the record.
InfoText(data) ==
    LET Field(label, k) == IF k \in DOMAIN data THEN <<label>> \o data[k] ELSE <<>>
        global_prompt == IF "global_prompt" \in DOMAIN data
                         THEN <<"Global Prompt: ">>
                              \o (IF data.global_prompt # <<>> THEN data.global_prompt
                                  ELSE <<"none">>)
                         ELSE <<>>
        prompts == IF "texts" \in DOMAIN data
                   THEN <<"Prompts: ">>
                        \o (IF data.texts # StrList(<<<<>>>>) THEN data.texts ELSE <<"none">>)
                   ELSE <<>>
        gen_type == IF "generator" \in DOMAIN data THEN data.generator \o <<"gen-">> ELSE <<>>
        model == IF "model" \in DOMAIN data THEN <<"Model: ">> \o gen_type \o data.model
                 ELSE <<>>
        version == IF "version" \in DOMAIN data THEN <<"Version: ">> \o data.version
                   ELSE <<"Version: Unknown">>
    IN version \o global_prompt \o Field("BPM: ", "bpm") \o Field("Key: ", "key")
       \o Field("Scale: ", "scale") \o prompts \o Field("Duration: ", "duration")
       \o Field("Overlap: ", "overlap") \o Field("Seed: ", "seed")
       \o Field("Audio Mode: ", "audio_mode") \o Field("Input Length: ", "input_length")
       \o Field("Channel: ", "channel") \o Field("Sample Rate: ", "sr_select") \o model
       \o Field("Custom Model: ", "custom_model") \o Field("Decoder: ", "decoder")
       \o Field("Topk: ", "topk") \o Field("Topp: ", "topp")
       \o Field("Temperature: ", "temperature")
       \o Field("Classifier Free Guidance: ", "cfg_coef")

\* get_audio_info(audio_path); raised stands for the exception of json.loads
\* or json.load, which nothing catches.
get_audio_info(file) ==
    IF file.kind = "none" THEN [raised |-> FALSE, info |-> PyNone]
    ELSE IF file.kind = "unsupported"
         THEN [raised |-> FALSE, info |-> <<"Only .wav ,.mp4 and .json files are supported">>]
    ELSE IF file.kind = "untagged" THEN [raised |-> FALSE, info |-> NoTagsFound(file.kind)]
    ELSE IF file.kind = "malformed" THEN [raised |-> TRUE, info |-> PyNone]
    ELSE [raised |-> FALSE,
          info |-> IF InfoText(file.data) = <<>> THEN NoTagsFound(file.kind)
                   ELSE InfoText(file.data)]

\* in_audio.change: a file is put into the info tab.
GetAudioInfo ==
    /\ metaOut = NoOut
    /\ metaOut' = [who |-> "info", out |-> get_audio_info(metaFile)]
    /\ UNCHANGED <<metaReq, metaSeed, metaFile, metaBase>>
    /\ UNCHANGED notMeta

InfoNext ==
    \/ \E req \in BaseRequests : \E seed \in SeedsUsed(req) : \E kind \in {"tagged", "json"} :
          Generate(req, seed, kind)
    \/ \E k \in MetaKeys : DropKey(k)
    \/ \E K \in {{}} \cup {{k} : k \in MetaKeys} : KeepOnly(K)
    \/ \E kind \in {"none", "unsupported", "untagged", "malformed"} : HandOver(kind)
    \/ GetAudioInfo

SpecInfo == Init /\ [][InfoNext]_vars

\* The files of C27: no COMMENT tag, a tag that is not JSON, or a record with
\* none of the known keys.
NoUsableTag(file) ==
    \/ file.kind \in {"untagged", "malformed"}
    \/ HasData(file) /\ DOMAIN file.data \cap MetaKeys = {}

\* C27: for a supported file whose tag is missing, is not JSON or holds none
\* of the known keys, get_audio_info returns the "No tags found" message and
\* does not raise.
C27_NoTagsMessage ==
    (metaOut.who = "info" /\ NoUsableTag(metaFile)) =>
        /\ ~metaOut.out.raised
        /\ metaOut.out.info = NoTagsFound(metaFile.kind)

\* What holds: a file without a COMMENT tag gets the message.
UntaggedGetsMessage ==
    (metaOut.who = "info" /\ metaFile.kind = "untagged") =>
        ~metaOut.out.raised /\ metaOut.out.info = NoTagsFound(metaFile.kind)

-----------------------------------------------------------------------------
(***************************************************************************)
(* The decoders on a stored list of texts                                  *)
(***************************************************************************)

\* Bound: the length of the stored list.
MaxTexts == 4

\* The prompt strings of the stored lists: none holds a quote character.
TextChoices == {<<>>, <<"lofi">>, <<"rain">>, <<" ">>, <<"drum", BSL, "bass">>}

RECURSIVE ListsOf(_)
ListsOf(n) ==
    IF n = 0 THEN {<<>>}
    ELSE LET shorter == ListsOf(n - 1)
         IN shorter \cup {Append(l, t) : l \in {x \in shorter : Len(x) = n - 1},
                                          t \in TextChoices}

\* A file is uploaded whose record holds the printed form of a list of texts.
StoreTexts ==
    /\ metaFile = NoFile
    /\ \E l \in ListsOf(MaxTexts), kind \in {"tagged", "json"} :
          /\ metaReq' = [gen_type |-> "stored", texts |-> l]
          /\ metaFile' = [kind |-> kind, data |-> [texts |-> StrList(l)]]
    /\ metaOut' = NoOut
    /\ UNCHANGED <<metaSeed, metaBase>>
    /\ UNCHANGED notMeta

TextsNext == StoreTexts \/ SendGen \/ SendGenA
SpecTexts == Init /\ [][TextsNext]_vars

\* The length of the run of entries equal to t that l starts with.
RECURSIVE RunLength(_, _)
RunLength(l, t) ==
    IF l = <<>> \/ Head(l) # t THEN 0 ELSE 1 + RunLength(Tail(l), t)

\* The maximal runs of consecutive equal non-empty entries of l, in order,
\* each as [text, repeat].
RECURSIVE RunsOf(_)
RunsOf(l) ==
    IF l = <<>> THEN <<>>
    ELSE LET n == RunLength(l, Head(l))
             rest == RunsOf(SubSeq(l, n + 1, Len(l)))
         IN IF Head(l) # <<>> THEN <<[text |-> Head(l), repeat |-> n]>> \o rest ELSE rest

Plain(t) == ~IsBlank(t) /\ \A i \in DOMAIN t : t[i] # BSL

\* The decoder's output is the runs, padded to ten slots.
ReturnsRuns(out, runs) ==
    /\ ~out.raised
    /\ out.unique_prompts = Len(runs)
    /\ out.text = PadTo10([i \in 1..Len(runs) |-> runs[i].text], <<>>)
    /\ out.repeat = PadTo10([i \in 1..Len(runs) |-> runs[i].repeat], 1)

\* C26: for a stored texts value that is the printed form of a list of
\* strings without quote characters, both decoders return the maximal runs
\* of consecutive equal non-empty entries as (text, repeat) pairs, in order,
\* padded to 10 slots with ("", 1), and the number of runs as prompt count.
C26_CollapsesRuns ==
    (metaReq.gen_type = "stored" /\ metaOut.who \in {"music", "audio"}) =>
        ReturnsRuns(metaOut.out, RunsOf(metaReq.texts))

\* What holds: the same for lists whose entries are empty or hold neither a
\* backslash nor only blanks.
CollapsesRunsOfPlainTexts ==
    (/\ metaReq.gen_type = "stored" /\ metaOut.who \in {"music", "audio"}
     /\ \A i \in DOMAIN metaReq.texts : metaReq.texts[i] = <<>> \/ Plain(metaReq.texts[i])) =>
        ReturnsRuns(metaOut.out, RunsOf(metaReq.texts))

-----------------------------------------------------------------------------
(***************************************************************************)
(* The model a generation runs with                                        *)
(***************************************************************************)

\* predict_full is past line 899 and calls _do_predictions, which calls the
\* generation entry points of MODEL.
Generating == loadReq.called /\ ~loadReq.raised

\* C28: whenever a generation entry point is invoked the active model is not
\* None and is on the accelerator, for every combination of the cache,
\* unload_model and unload_to_cpu options and every sequence of earlier
\* requests, failed, interrupted or reusing the active model.
C28_ModelReadyForGeneration ==
    Generating => MODEL # NoModel /\ device[MODEL] = "cuda"

\* What holds: the same without the cache.
ModelReadyWithoutCache ==
    (Generating /\ MODELS.is_none) => MODEL # NoModel /\ device[MODEL] = "cuda"

-----------------------------------------------------------------------------
(***************************************************************************)
(* The files of a completed _do_predictions                                *)
(***************************************************************************)

\* The paths _do_predictions wrote or had written in this request.
OutputPaths == Range(run.wavs) \cup Range(run.backups) \cup Range(run.videos)

-----------------------------------------------------------------------------
(***************************************************************************)
(* predict_full: the seed of a request                                     *)
(*                                                                         *)
(* The draws of random.randint(0, 0xffff_ffff_ffff) are 0..MaxRandomSeed.  *)
(* metaSeed is the value given to torch.manual_seed.  A file of the output *)
(* tree carries in `seed` the text its name starts with.                   *)
(***************************************************************************)

\* Bound: the requests of a behaviour.
MaxSeededRequests == 2

\* The requests: the seed field set to -1 (its initial value), 0 and 7.
SeedRequests ==
    {[req EXCEPT !.seed = seed] :
        req \in {Request("music", FALSE, <<>>, Prompts(1, <<<<"lofi">>>>, <<1>>),
                         FALSE, "sample", st, 7) : st \in SettingChoices}
                 \cup {AudioTab(Request("music", TRUE, <<"epic">>,
                                        Prompts(1, <<<<"rain">>>>, <<3>>),
                                        FALSE, "sample", st, 7)) : st \in SettingChoices},
        seed \in {-1, 0, 7}}

\* A request runs to its end: the seed is fixed and given to the random
\* generator, the tags are built, save_outputs names the files after tags[7]
\* and the seed is returned, unless save_outputs raised.
PredictFullSeeded ==
    /\ Len(saveLog) < MaxSeededRequests
    /\ \E req \in SeedRequests : \E seed \in SeedsUsed(req) :
        LET tags == Tags(req, seed)
            made == {OutDir(cwd, today, req.gen_type, f) : f \in {"wav", "mp4", "json"}}
            dirs == outDirs \cup made
            wav  == WavTarget(outTree, OutDir(cwd, today, req.gen_type, "wav"), tags[8])
            mp4  == Replace(wav, "wav", "mp4")
            json == Replace(mp4, "mp4", "json")
            mp4ok  == DirOf(mp4) \in dirs
            jsonok == mp4ok /\ DirOf(json) \in dirs
            wrote == {wav} \cup (IF mp4ok THEN {mp4} ELSE {})
                           \cup (IF jsonok THEN {json} ELSE {})
        IN /\ metaReq' = req
           /\ metaSeed' = seed
           /\ metaBase' = AddTags(tags)
           /\ metaFile' = [kind |-> "tagged", data |-> AddTags(tags)]
           /\ metaOut' = [who |-> "predict", out |-> [raised |-> ~jsonok, seed |-> seed]]
           /\ outDirs' = dirs
           /\ outTree' = outTree \cup wrote
           /\ saveLog' = Append(saveLog,
                 [seed |-> tags[8], gen |-> req.gen_type, date |-> today,
                  wrote |-> wrote, clobbered |-> wrote \cap outTree,
                  returned |-> jsonok])
    /\ UNCHANGED <<cwd, today>>
    /\ UNCHANGED <<cleanerVars, splitVars, calcVars, predVars, modelVars, runVars,
                   promptVars>>

SeedNext == PredictFullSeeded
SpecSeed == SaveInit /\ [][SeedNext]_vars

\* C30: the seed used is never negative: a requested seed >= 0 is used as it
\* is, a negative one is replaced by a draw of random.randint; the value
\* given to the random generator is the one recorded in the metadata, the
\* one the persisted files are named after and the one returned.
C30_OneSeedUsed ==
    metaOut.who = "predict" =>
        /\ metaSeed >= 0
        /\ metaReq.seed >= 0 => metaSeed = metaReq.seed
        /\ metaReq.seed < 0 => metaSeed \in 0..MaxRandomSeed
        /\ metaBase.seed = StrInt(metaSeed)
        /\ \A f \in saveLog[Len(saveLog)].wrote : f.seed = StrInt(metaSeed)
        /\ ~metaOut.out.raised => metaOut.out.seed = metaSeed

\* C30 witness: a request with a negative seed was given the draw 1, a name
\* taken already, and returned it.
C30_Witness ==
    /\ metaOut.who = "predict"
    /\ metaReq.seed < 0
    /\ metaSeed = 1
    /\ ~metaOut.out.raised
    /\ \E f \in saveLog[Len(saveLog)].wrote : f.n = 1 /\ f.seed = <<"1">>
====
